---- MODULE Spec2Model ----
(***************************************************************************)
(* Odysseia-Arena / SillyTavernOdysseia: the unified macro and code        *)
(* execution engine (fragment collection, activation, code blocks, content *)
(* expansion, scoped variables) and the regex view pipeline.               *)
(*                                                                         *)
(* The Python implementation (src/services/*.py) is not part of the        *)
(* source tree; the engine is modelled from the code listings and the      *)
(* execution-flow descriptions of the design documents under src/, and     *)
(* from the specification where the documents give no listing.             *)
(***************************************************************************)
EXTENDS Integers, Sequences, FiniteSets, Bags, TLC

VARIABLES
    mode,        \* which part of the program this behaviour exercises
    decls,       \* the fragments as declared by the external collaborators
    frags,       \* the collected fragments, in processing order
    scopes,      \* the scope variable store: scope -> name -> value
    start,       \* history: the store as the current build found it
    cache,       \* enabled_cached of every declared fragment ("none" = None)
    idx,         \* index in frags of the fragment being processed
    pc,          \* position of the build loop
    activation,  \* the activation record of the current build
    out,         \* the final message list: one part per activated fragment
    trace,       \* history: the steps run in this build, in order
    writes,      \* history: the scope writes of this build, in order
    evals,       \* history: the activation results of this build
    build,       \* number of the current build
    prev,        \* history: the store and the clean output of the earlier builds
    heap,        \* the message objects: address -> message
    canon,       \* the canonical assembled list: addresses of its messages
    canon0,      \* history: the contents of the canonical list when assembled
    rules,       \* the regex rules, in application order
    views,       \* the outputs computed so far: their copy and their result
    work,        \* the view being processed and its messages, part by part
    applied,     \* history: the regex passes and the macro pass, in order
    placed,      \* the messages after placement: one message per fragment
    assembled,   \* the canonical list: the placed messages, roles merged
    tiers,       \* the output formats produced from the canonical list
    par,         \* the builds that run in parallel: the loop state of each
    stores,      \* the scope store instances of the parallel builds
    sharing,     \* whether the parallel builds share one global scope
    lock,        \* the lock of the shared global scope: its holder, 0 = free
    sandbox,     \* one evaluation in the sandbox: its operations, clock and alarm
    template,    \* the text given to the macro translator, token by token
    converted,   \* the text after the conversions applied so far
    matches,     \* history: the spans the conversions matched
    macros,      \* the macros a round-trip template is written from
    syntax,      \* the syntax the round-trip template is written in
    outcome,     \* the processed text and the store after it
    layout,      \* the placing of in-chat and relative entries around the chat history
    compiling,   \* the compiling of the loaded regex rules, and their use
    bot,         \* the Discord bot: the backend's battles, activeBattles, requests, messages
    sessionBot,  \* the bot with sessions: userSessions, sessionToUser, handlers, requests
    battleCache, \* activeBattles of the bot and its timers, with the clock
    access,      \* the whitelists of the bot and what a command or a click led to
    embed        \* a description and what its truncation gives

engineVars == <<scopes, start, cache, idx, activation, out, trace, writes, evals, build, prev>>

regexVars == <<heap, canon, canon0, rules, views, work, applied>>

assembleVars == <<placed, assembled, tiers>>

parallelVars == <<par, stores, sharing, lock>>

sandboxVars == <<sandbox>>

translatorVars == <<template, converted, matches, macros, syntax, outcome>>

\* The components modelled on their own.
placementVars == <<layout>>

compileVars == <<compiling>>

botVars == <<bot>>

\* The further parts of the Discord bot, each modelled on its own.
arenaVars == <<sessionBot, battleCache, access, embed>>

extraVars == <<placementVars, compileVars, botVars, arenaVars>>

componentVars == <<sandboxVars, translatorVars, extraVars>>

vars == <<mode, decls, frags, pc, engineVars, regexVars, assembleVars, parallelVars, componentVars>>

----------------------------------------------------------------------------
(* Bounds of the model *)

MaxFrags == 3
MaxBuilds == 2
MaxRules == 2

Max(S) == CHOOSE x \in S : \A y \in S : y <= x

----------------------------------------------------------------------------
(* Scope variable store *)

Scopes == {"preset", "char", "world", "conversation", "global", "temp"}
SourceTypes == {"preset", "char", "world", "conversation"}
BaseNames == {"level", "x"}

\* The value an unset variable reads as: the empty string.
Unset == ""

\* A variable name is its underscore-separated tokens: world_level is
\* <<"world", "level">>, level is <<"level">>.
Prefixes == {"world", "preset", "char", "character", "conv", "conversation", "global"}

ScopeOfPrefix(p) ==
    CASE p = "world" -> "world"
      [] p = "preset" -> "preset"
      [] p \in {"char", "character"} -> "char"
      [] p \in {"conv", "conversation"} -> "conversation"
      [] p = "global" -> "global"

\* A resolution that strips the prefix and ignores it: every name lands in
\* the scope of the fragment that uses it.
PrefixBlindResolveName(name, active) ==
    [scope |-> active, key |-> name[Len(name)]]

\* The scope and the key a name resolves to for a fragment whose source type
\* is active: a recognized prefix forces its scope and is stripped, a name
\* without one goes to the active scope.
ResolveName(name, active) ==
    IF Len(name) > 1 /\ Head(name) \in Prefixes
    THEN [scope |-> ScopeOfPrefix(Head(name)), key |-> name[2]]
    ELSE [scope |-> active, key |-> name[1]]

\* A read served from a snapshot taken when the build began.
SnapshotScopeGet(sc, name, active) ==
    LET r == ResolveName(name, active) IN start[r.scope][r.key]

ScopeGet(sc, name, active) ==
    LET r == ResolveName(name, active) IN sc[r.scope][r.key]

ScopeSet(sc, name, active, v) ==
    LET r == ResolveName(name, active) IN [sc EXCEPT ![r.scope][r.key] = v]

EmptyScopes == [s \in Scopes |-> [n \in BaseNames |-> Unset]]

----------------------------------------------------------------------------
(* Sandboxed expression evaluator *)

ErrorKinds == {"ParseError", "SecurityViolation", "TimeoutError", "RuntimeError"}

\* An expression is [op, name, v]:
\*   lit   the literal text v
\*   get   getvar(name): the value, the empty string when there is none
\*   set   setvar(name, v), which returns None: no text, a false enabled
\*   ge    getvar(name) >= v with v a number, as "true" / "false"; the empty
\*         string of an unset variable does not compare with a number
\*   cond  'unlocked' if (getvar(name) or 0) >= v else 'locked'
\*   err   an expression whose evaluation fails with the error kind v
\*   none  no code at all (an absent code_block)
NoName == <<"x">>
Lit(v) == [op |-> "lit", name |-> NoName, v |-> v]
Get(n) == [op |-> "get", name |-> n, v |-> ""]
Set(n, v) == [op |-> "set", name |-> n, v |-> v]
Ge(n, v) == [op |-> "ge", name |-> n, v |-> v]
Cond(n, v) == [op |-> "cond", name |-> n, v |-> v]
Err(k) == [op |-> "err", name |-> NoName, v |-> k]
NoCode == [op |-> "none", name |-> NoName, v |-> ""]

IntOf(s) == CASE s = "1" -> 1 [] s = "5" -> 5 [] OTHER -> 0

\* (a or 0) >= k for a positive number k.
GeVal(a, k) == a # Unset /\ IntOf(a) >= IntOf(k)

BoolStr(b) == IF b THEN "true" ELSE "false"

\* ExecutionResult of sandbox.execute_code(code, scope_type): success, the
\* result, the error, the store after the call and the writes it made.
ExecuteCode(e, active, sc) ==
    LET ok(val, sc2, w) ==
            [success |-> TRUE, result |-> val, error |-> "", sc |-> sc2, w |-> w]
        failed(kind) ==
            [success |-> FALSE, result |-> "", error |-> kind, sc |-> sc, w |-> <<>>]
    IN  CASE e.op = "lit" -> ok(e.v, sc, <<>>)
          [] e.op = "get" -> ok(ScopeGet(sc, e.name, active), sc, <<>>)
          [] e.op = "set" ->
                ok("", ScopeSet(sc, e.name, active, e.v),
                   <<[name |-> e.name, scope |-> ResolveName(e.name, active).scope,
                      key |-> ResolveName(e.name, active).key, v |-> e.v]>>)
          [] e.op = "ge" ->
                IF ScopeGet(sc, e.name, active) = Unset
                THEN failed("RuntimeError")
                ELSE ok(BoolStr(IntOf(ScopeGet(sc, e.name, active)) >= IntOf(e.v)),
                        sc, <<>>)
          [] e.op = "cond" ->
                ok(IF GeVal(ScopeGet(sc, e.name, active), e.v)
                   THEN "unlocked" ELSE "locked", sc, <<>>)
          [] e.op = "none" -> ok("", sc, <<>>)
          [] e.op = "err" -> failed(e.v)

\* The inline diagnostic that replaces a failing span.
DiagText(kind) ==
    CASE kind = "ParseError" -> "[error: ParseError]"
      [] kind = "SecurityViolation" -> "[error: SecurityViolation]"
      [] kind = "TimeoutError" -> "[error: TimeoutError]"
      [] kind = "RuntimeError" -> "[error: RuntimeError]"

Diagnostics == {DiagText(k) : k \in ErrorKinds}

\* One {{python:...}} macro of a content: its text, or the diagnostic.
ExecutePythonMacro(e, active, sc) ==
    LET r == ExecuteCode(e, active, sc)
    IN  [text |-> IF r.success THEN r.result ELSE DiagText(r.error),
         sc |-> r.sc, w |-> r.w]

\* An expansion that gives up at the first failing macro: the diagnostic
\* ends the content.
RECURSIVE AbortingProcessPythonMacros(_, _, _)
AbortingProcessPythonMacros(segs, active, sc) ==
    IF segs = <<>> THEN [texts |-> <<>>, sc |-> sc, w |-> <<>>]
    ELSE LET r == ExecuteCode(Head(segs), active, sc)
             t == AbortingProcessPythonMacros(Tail(segs), active, r.sc)
         IN  IF r.success
             THEN [texts |-> <<r.result>> \o t.texts, sc |-> t.sc, w |-> r.w \o t.w]
             ELSE [texts |-> <<DiagText(r.error)>>, sc |-> sc, w |-> <<>>]

\* The macros of a content are replaced one by one, left to right, each
\* against the store the previous ones left.
RECURSIVE ProcessPythonMacros(_, _, _)
ProcessPythonMacros(segs, active, sc) ==
    IF segs = <<>> THEN [texts |-> <<>>, sc |-> sc, w |-> <<>>]
    ELSE LET h == ExecutePythonMacro(Head(segs), active, sc)
             t == ProcessPythonMacros(Tail(segs), active, h.sc)
         IN  [texts |-> <<h.text>> \o t.texts, sc |-> t.sc, w |-> h.w \o t.w]

Truthy(val) == val \notin {"", "false"}

----------------------------------------------------------------------------
(* Content fragments *)

Roles == {"system", "user", "assistant"}

\* enabled is a literal boolean (kind "bool"), a string holding a macro
\* (kind "macro": it contains the expression marker) or a bare string.
EnBool(b) == [kind |-> "bool", b |-> b, e |-> NoCode]
EnMacro(e) == [kind |-> "macro", b |-> TRUE, e |-> e]
EnBare(e) == [kind |-> "bare", b |-> TRUE, e |-> e]

Fragment(id, src, role, en, code, content) ==
    [id |-> id, src |-> src, role |-> role, depth |-> 1, order |-> 100,
     decl |-> 1, enabled |-> en, code |-> code, content |-> content]

\* The entries the behaviours draw their fragment sets from.
Pool ==
    << Fragment("init", "preset", "system", EnBool(TRUE),
                Set(<<"level">>, "5"), <<Lit("ready")>>),
       Fragment("gate", "preset", "system", EnBool(TRUE),
                NoCode, <<Cond(<<"level">>, "5")>>),
       Fragment("lore", "world", "system", EnMacro(Ge(<<"preset", "level">>, "5")),
                Set(<<"level">>, "1"), <<Get(<<"level">>), Get(<<"preset", "level">>)>>),
       Fragment("turn", "conversation", "user", EnBare(Get(<<"global", "x">>)),
                NoCode, <<Lit("hello"), Get(<<"global", "x">>)>>),
       Fragment("broken", "conversation", "assistant", EnBool(TRUE),
                Err("RuntimeError"),
                <<Err("ParseError"), Lit("tail"), Err("TimeoutError")>>),
       Fragment("badpred", "world", "system", EnBare(Err("SecurityViolation")),
                Set(<<"global", "x">>, "1"), <<Lit("never")>>),
       Fragment("flag", "preset", "user", EnBare(Set(<<"global", "x">>, "1")),
                Set(<<"level">>, "1"), <<Set(<<"x">>, "1")>>),
       Fragment("off", "char", "system", EnBool(FALSE),
                Set(<<"global", "x">>, "5"), <<Set(<<"level">>, "5")>>),
       Fragment("card", "char", "assistant", EnBool(TRUE),
                Set(<<"level">>, "1"),
                <<Get(<<"character", "level">>), Get(<<"preset", "level">>)>>),
       Fragment("seen", "conversation", "user", EnBool(TRUE),
                NoCode, <<Get(<<"global", "x">>), Set(<<"global", "x">>, "5")>>),
       Fragment("scratch", "temp", "user", EnBool(TRUE),
                NoCode, <<Get(<<"x">>), Set(<<"x">>, "1")>>) >>

Orders == {10, 20}
Depths == {1, 2}

----------------------------------------------------------------------------
(* Source collector and orderer *)

RolePriority(role) ==
    CASE role = "assistant" -> 0 [] role = "user" -> 1 [] role = "system" -> 2

\* a is placed strictly before b whatever their declaration order: smaller
\* order first, then smaller depth, then the role priority.
Before(a, b) ==
    \/ a.order < b.order
    \/ a.order = b.order /\ a.depth < b.depth
    \/ a.order = b.order /\ a.depth = b.depth
         /\ RolePriority(a.role) < RolePriority(b.role)

\* An insertion that puts the new entry in front of the entries it ties with.
RECURSIVE EagerInsertSorted(_, _)
EagerInsertSorted(s, x) ==
    IF s = <<>> THEN <<x>>
    ELSE IF ~Before(Head(s), x) THEN <<x>> \o s
    ELSE <<Head(s)>> \o EagerInsertSorted(Tail(s), x)

RECURSIVE InsertSorted(_, _)
InsertSorted(s, x) ==
    IF s = <<>> THEN <<x>>
    ELSE IF Before(x, Head(s)) THEN <<x>> \o s
    ELSE <<Head(s)>> \o InsertSorted(Tail(s), x)

\* A stable sort: the entries are inserted in declaration order, each after
\* the entries it does not precede.
RECURSIVE SortFrags(_)
SortFrags(s) ==
    IF s = <<>> THEN <<>>
    ELSE InsertSorted(SortFrags(SubSeq(s, 1, Len(s) - 1)), s[Len(s)])

\* "Definitely disabled" entries (enabled = false) take no part in the build.
IsLiteralFalse(f) == f.enabled.kind = "bool" /\ ~f.enabled.b

NotLiteralFalse(f) == ~IsLiteralFalse(f)

Collect(ds) == SortFrags(SelectSeq(ds, NotLiteralFalse))

----------------------------------------------------------------------------
(* Conditional activation resolver *)

\* A bare string is wrapped as a {{python:...}} macro and evaluated as one.
WrapBare(en) == IF en.kind = "bare" THEN [en EXCEPT !.kind = "macro"] ELSE en

\* An evaluation of the enabled expression whose failure counts as true.
FailOpenProcessEnabledMacro(f, sc) ==
    LET r == ExecuteCode(WrapBare(f.enabled).e, f.src, sc)
    IN  [enabled |-> ~r.success \/ Truthy(r.result), error |-> r.error,
         sc |-> r.sc, w |-> r.w]

\* The enabled expression evaluated against the current store; a failing
\* evaluation counts as false.
ProcessEnabledMacro(f, sc) ==
    LET r == ExecuteCode(WrapBare(f.enabled).e, f.src, sc)
    IN  [enabled |-> r.success /\ Truthy(r.result), error |-> r.error,
         sc |-> r.sc, w |-> r.w]

\* evaluate_enabled: the cached result when there is one, else the literal
\* or the evaluated expression, which is then cached.
EvaluateEnabled(f, ch, sc) ==
    IF ch[f.id] # "none"
    THEN [enabled |-> ch[f.id] = "true", error |-> "", sc |-> sc, w |-> <<>>,
          cache |-> ch]
    ELSE IF f.enabled.kind = "bool"
    THEN [enabled |-> f.enabled.b, error |-> "", sc |-> sc, w |-> <<>>,
          cache |-> [ch EXCEPT ![f.id] = BoolStr(f.enabled.b)]]
    ELSE LET r == ProcessEnabledMacro(f, sc)
         IN  [enabled |-> r.enabled, error |-> r.error, sc |-> r.sc, w |-> r.w,
              cache |-> [ch EXCEPT ![f.id] = BoolStr(r.enabled)]]

PoolIds == {Pool[i].id : i \in 1..Len(Pool)}

NoCache == [i \in PoolIds |-> "none"]

\* A cache that is never emptied.
KeepEnabledCache(ch) == ch

\* The enabled cache is emptied before every build and after every entry.
ClearEnabledCache(ch) == NoCache

----------------------------------------------------------------------------
(* The build loop: one entry at a time, enabled -> code_block -> content *)

\* A loop that runs an entry's code_block and content whatever its enabled
\* evaluated to.
UnguardedNextPos(i, p, en, act, n) ==
    IF p = "enabled" THEN [idx |-> i, pc |-> "code"]
    ELSE IF p = "code" THEN [idx |-> i, pc |-> "content"]
    ELSE [idx |-> i + 1, pc |-> IF i < n THEN "enabled" ELSE "done"]

\* A build that runs in phases: every enabled and code_block first, the
\* contents of the enabled entries afterwards.
FirstEnabledAfter(i, act, n) ==
    IF \E j \in (i + 1)..n : act[j] = "enabled"
    THEN [idx |-> CHOOSE j \in (i + 1)..n :
                     /\ act[j] = "enabled"
                     /\ \A k \in (i + 1)..(j - 1) : act[k] # "enabled",
          pc |-> "content"]
    ELSE [idx |-> n + 1, pc |-> "done"]

PhasedNextPos(i, p, en, act, n) ==
    IF p = "enabled" /\ en THEN [idx |-> i, pc |-> "code"]
    ELSE IF p \in {"enabled", "code"}
    THEN IF i < n THEN [idx |-> i + 1, pc |-> "enabled"]
         ELSE FirstEnabledAfter(0, act, n)
    ELSE FirstEnabledAfter(i, act, n)

\* Where the loop goes after step p of entry i (of n), whose enabled
\* evaluated to en; act is the activation record after the step.
NextPos(i, p, en, act, n) ==
    IF p = "enabled" /\ en THEN [idx |-> i, pc |-> "code"]
    ELSE IF p = "code" THEN [idx |-> i, pc |-> "content"]
    ELSE [idx |-> i + 1, pc |-> IF i < n THEN "enabled" ELSE "done"]

TagWrites(w, i, step) ==
    [k \in 1..Len(w) |-> [f |-> i, step |-> step, name |-> w[k].name,
                          scope |-> w[k].scope, key |-> w[k].key, v |-> w[k].v]]

Event(i, step) == [f |-> i, step |-> step]

\* Step 1: the entry's enabled is evaluated against the current store.
ResolveEnabled ==
    /\ mode = "build" /\ pc = "enabled" /\ idx <= Len(frags)
    /\ LET f == frags[idx]
           r == EvaluateEnabled(f, cache, scopes)
           fresh == EvaluateEnabled(f, NoCache, scopes)
           act == [activation EXCEPT ![idx] = IF r.enabled THEN "enabled" ELSE "disabled"]
           nxt == NextPos(idx, "enabled", r.enabled, act, Len(frags))
       IN  /\ activation' = act
           /\ scopes' = r.sc
           /\ cache' = IF r.enabled THEN r.cache ELSE ClearEnabledCache(r.cache)
           /\ trace' = Append(trace, Event(idx, "enabled"))
           /\ writes' = writes \o TagWrites(r.w, idx, "enabled")
           /\ evals' = Append(evals, [f |-> idx, result |-> r.enabled,
                                      fresh |-> fresh.enabled, error |-> r.error,
                                      at |-> Len(trace) + 1])
           /\ idx' = nxt.idx /\ pc' = nxt.pc
    /\ UNCHANGED <<mode, decls, frags, start, out, build, prev, regexVars, assembleVars, parallelVars, componentVars>>

\* Step 2: the code_block of an enabled entry runs for its side effects.
ExecCodeBlock ==
    /\ mode = "build" /\ pc = "code" /\ idx <= Len(frags)
    /\ LET f == frags[idx]
           r == ExecuteCode(f.code, f.src, scopes)
           nxt == NextPos(idx, "code", TRUE, activation, Len(frags))
       IN  /\ scopes' = r.sc
           /\ out' = Append(out, [f |-> idx, id |-> f.id, role |-> f.role,
                                  src |-> f.src,
                                  codeDiag |-> IF r.success THEN "" ELSE DiagText(r.error),
                                  texts |-> <<>>, expanded |-> FALSE])
           /\ trace' = Append(trace, Event(idx, "code"))
           /\ writes' = writes \o TagWrites(r.w, idx, "code")
           /\ idx' = nxt.idx /\ pc' = nxt.pc
    /\ UNCHANGED <<mode, decls, frags, start, cache, activation, evals, build, prev, regexVars, assembleVars, parallelVars, componentVars>>

\* Steps 3 and 4: the content's macros are expanded in the entry's scope and
\* the entry joins the final message list; the enabled cache is cleared.
ExpandContent ==
    /\ mode = "build" /\ pc = "content" /\ idx <= Len(frags)
    /\ LET f == frags[idx]
           r == ProcessPythonMacros(f.content, f.src, scopes)
           nxt == NextPos(idx, "content", TRUE, activation, Len(frags))
       IN  /\ scopes' = r.sc
           /\ out' = [k \in 1..Len(out) |->
                        IF out[k].f = idx
                        THEN [out[k] EXCEPT !.texts = r.texts, !.expanded = TRUE]
                        ELSE out[k]]
           /\ trace' = Append(trace, Event(idx, "content"))
           /\ writes' = writes \o TagWrites(r.w, idx, "content")
           /\ cache' = ClearEnabledCache(cache)
           /\ idx' = nxt.idx /\ pc' = nxt.pc
    /\ UNCHANGED <<mode, decls, frags, start, activation, evals, build, prev, regexVars, assembleVars, parallelVars, componentVars>>

\* A store that a new build takes over as it is.
KeepScopes(sc) == sc

\* The scopes a new build starts from: the global scope is the one that
\* outlives a build.
ScopesForNewBuild(sc) == [EmptyScopes EXCEPT !["global"] = sc["global"]]

Pending(fs) == [i \in 1..Len(fs) |-> "pending"]

----------------------------------------------------------------------------
(* Initial states *)

RECURSIVE SetToSeq(_)
SetToSeq(S) ==
    IF S = {} THEN <<>>
    ELSE LET m == CHOOSE x \in S : \A y \in S : x <= y
         IN  <<m>> \o SetToSeq(S \ {m})

\* The declared entries: the chosen pool entries in pool order, each with
\* its order key.
Declare(S, ord) ==
    LET ix == SetToSeq(S)
    IN  [k \in 1..Len(ix) |-> [Pool[ix[k]] EXCEPT !.decl = k, !.order = ord[ix[k]]]]

SandboxIdle == sandbox = <<>>

TranslatorIdle ==
    /\ template = <<>> /\ converted = <<>> /\ matches = <<>>
    /\ macros = <<>> /\ syntax = "" /\ outcome = <<>>

\* No component runs on its own in this behaviour.
PlacementIdle == layout = <<>>

CompileIdle == compiling = <<>>

BotIdle == bot = <<>>

ArenaIdle == sessionBot = <<>> /\ battleCache = <<>> /\ access = <<>> /\ embed = <<>>

ExtrasIdle == PlacementIdle /\ CompileIdle /\ BotIdle /\ ArenaIdle

ComponentsIdle == SandboxIdle /\ TranslatorIdle /\ ExtrasIdle

\* No builds run in parallel in this behaviour.
ParallelIdle ==
    /\ par = <<>> /\ stores = <<>> /\ sharing = FALSE /\ lock = 0

\* No regex pipeline runs in this behaviour.
RegexIdle ==
    /\ heap = <<>> /\ canon = <<>> /\ canon0 = <<>> /\ rules = <<>> /\ views = <<>>
    /\ work = <<>> /\ applied = <<>>

\* No assembly runs in this behaviour.
AssembleIdle ==
    /\ placed = <<>> /\ assembled = <<>> /\ tiers = <<>>

----------------------------------------------------------------------------
(* The collector on its own: every combination of sort keys *)

EntryIds == <<"e1", "e2", "e3", "e4", "e5", "e6">>

\* No build runs in this behaviour.
EngineIdle ==
    /\ scopes = EmptyScopes /\ start = EmptyScopes /\ cache = NoCache
    /\ idx = 1 /\ activation = <<>>
    /\ out = <<>> /\ trace = <<>> /\ writes = <<>> /\ evals = <<>>
    /\ build = 1 /\ prev = <<>>

\* The k-th declared entry with the given keys.
KeyedEntry(k, key) ==
    [Fragment(EntryIds[k], "preset", key.role, EnBool(TRUE), NoCode, <<>>)
        EXCEPT !.decl = k, !.order = key.order, !.depth = key.depth]

SortKeys == [order : Orders, depth : Depths, role : Roles]

InitSort ==
    /\ mode = "sort"
    /\ \E n \in 1..MaxFrags :
         \E keys \in [1..n -> SortKeys] :
            decls = [k \in 1..n |-> KeyedEntry(k, keys[k])]
    /\ frags = <<>>
    /\ pc = "declared"
    /\ EngineIdle
    /\ ParallelIdle
    /\ ComponentsIdle
    /\ AssembleIdle
    /\ RegexIdle

\* collect(): the declared entries in processing order.
CollectFragments ==
    /\ mode = "sort" /\ pc = "declared"
    /\ frags' = Collect(decls)
    /\ pc' = "collected"
    /\ UNCHANGED <<mode, decls, engineVars, regexVars, assembleVars, parallelVars, componentVars>>

\* A second collection of the same input.
CollectAgain ==
    /\ mode = "sort" /\ pc = "collected"
    /\ frags' = Collect(decls)
    /\ pc' = "recollected"
    /\ UNCHANGED <<mode, decls, engineVars, regexVars, assembleVars, parallelVars, componentVars>>

NextSort ==
    \/ CollectFragments
    \/ CollectAgain

SpecSort == InitSort /\ [][NextSort]_vars

----------------------------------------------------------------------------
(* Regex view pipeline *)

\* The three views a rule can name, and the six prompt formats: each base
\* format without and with the regex rules applied.
Views == {"raw_view", "user_view", "assistant_view"}

Formats == <<"raw_prompt", "processed_prompt", "clean_prompt",
             "raw_prompt_with_regex", "processed_prompt_with_regex",
             "clean_prompt_with_regex">>

FormatNames == {Formats[k] : k \in 1..Len(Formats)}

FormatIndex(o) == CHOOSE k \in 1..Len(Formats) : Formats[k] = o

TierOf(o) ==
    CASE o \in {"raw_prompt", "raw_prompt_with_regex"} -> "raw"
      [] o \in {"processed_prompt", "processed_prompt_with_regex"} -> "processed"
      [] o \in {"clean_prompt", "clean_prompt_with_regex"} -> "clean"

WithRegex(o) ==
    o \in {"raw_prompt_with_regex", "processed_prompt_with_regex",
           "clean_prompt_with_regex"}

\* The view whose rules modify a tier: raw_view the raw prompt, user_view
\* what the user sees, assistant_view what is sent to the model.
ViewOf(tier) ==
    CASE tier = "raw" -> "raw_view"
      [] tier = "processed" -> "user_view"
      [] tier = "clean" -> "assistant_view"

\* A content part: its text (a sequence of tokens), where it comes from and
\* whether its fragment was activated.
Part(src, active, text) ==
    [src |-> src, active |-> active, text |-> text,
     ident |-> <<src, "in-chat", "depth_1">>, depth |-> 1, order |-> 10]

\* A part with its source identifier (the segments between the colons, so
\* main:relative is <<"main", "relative">>), its depth and its order.
PartAt(src, text, ident, depth, order) ==
    [src |-> src, active |-> TRUE, text |-> text,
     ident |-> ident, depth |-> depth, order |-> order]

Message(role, parts) == [role |-> role, parts |-> parts]

\* The assembled lists the behaviours start from.
CanonPool ==
    { << Message("system", <<Part("preset", TRUE, <<"a", "b">>),
                             Part("world", FALSE, <<"a">>)>>),
         Message("user", <<Part("conversation", TRUE, <<"b", "a">>)>>) >>,
      << Message("assistant", <<Part("char", TRUE, <<"a">>),
                                Part("preset", TRUE, <<"c">>)>>) >> }

CellsPerList == Max({Len(c) : c \in CanonPool})

\* The heap: the canonical list owns the first cells; every format owns a
\* region for its working copy and one for its result.
Addresses == 1..(CellsPerList * (1 + 2 * Len(Formats)))

FreeCell == Message("free", <<>>)

CopyBase(o) == CellsPerList * (2 * FormatIndex(o) - 1)

ResultBase(o) == CellsPerList * (2 * FormatIndex(o))

ListAt(base, n) == [k \in 1..n |-> base + k]

Deref(h, addrs) == [k \in 1..Len(addrs) |-> h[addrs[k]]]

\* New message objects holding msgs, allocated from base on.
Store(h, base, msgs) ==
    [a \in DOMAIN h |->
        IF a \in (base + 1)..(base + Len(msgs)) THEN msgs[a - base] ELSE h[a]]

\* A copy that shares the message objects of the list it copies.
ShallowCopy(h, addrs, base) == [heap |-> h, list |-> addrs]

\* copy.deepcopy of a list of messages: new objects with the same contents.
DeepCopy(h, addrs, base) ==
    [heap |-> Store(h, base, Deref(h, addrs)), list |-> ListAt(base, Len(addrs))]

IsActive(part) == part.active

HasParts(msg) == msg.parts # <<>>

OnlyActive(msg) == [msg EXCEPT !.parts = SelectSeq(msg.parts, IsActive)]

\* The texts of the parts one after the other, nothing between them.
RECURSIVE JoinPartsUnseparated(_)
JoinPartsUnseparated(parts) ==
    IF parts = <<>> THEN <<>>
    ELSE parts[1].text \o JoinPartsUnseparated(Tail(parts))

\* The texts of the parts joined with a blank line between them.
RECURSIVE JoinParts(_)
JoinParts(parts) ==
    IF parts = <<>> THEN <<>>
    ELSE IF Len(parts) = 1 THEN parts[1].text
    ELSE parts[1].text \o <<"\n\n">> \o JoinParts(Tail(parts))

\* role and content only: the joined text carries no provenance.
Flatten(msg) == Message(msg.role, <<PartAt("", JoinParts(msg.parts), <<>>, 0, 0)>>)

\* Every tier made of every part.
KeepAllParts(tier, msgs) == msgs

\* The parts a tier is made of: raw keeps every part, processed and clean
\* the parts of activated fragments.
SelectParts(tier, msgs) ==
    IF tier = "raw" THEN msgs
    ELSE SelectSeq([k \in 1..Len(msgs) |-> OnlyActive(msgs[k])], HasParts)

\* The shape a tier is returned in: raw and processed keep the parts with
\* their provenance, clean flattens every message to role and text.
Finish(tier, msgs) ==
    IF tier = "clean" THEN [k \in 1..Len(msgs) |-> Flatten(msgs[k])] ELSE msgs

\* A base format: the tier without any regex rule.
DeriveTier(tier, msgs) == Finish(tier, SelectParts(tier, msgs))

\* Embedded expressions. A text is a sequence of tokens; an expression span
\* is one token, written with its braces, whose source holds one string
\* literal. Its expansion is the value of the expression, which holds no
\* expression syntax and differs from the literal.
Literals == {"a", "b", "c"}

Expr(lit) ==
    CASE lit = "a" -> "{{a}}"
      [] lit = "b" -> "{{b}}"
      [] lit = "c" -> "{{c}}"

IsExpr(tok) == \E lit \in Literals : tok = Expr(lit)

Literal(tok) == CHOOSE lit \in Literals : tok = Expr(lit)

Value(lit) ==
    CASE lit = "a" -> "A"
      [] lit = "b" -> "B"
      [] lit = "c" -> "C"

HasExpr(text) == \E k \in 1..Len(text) : IsExpr(text[k])

\* Macro processing of a text: every expression span becomes its value.
ExpandText(text) ==
    [k \in 1..Len(text) |-> IF IsExpr(text[k]) THEN Value(Literal(text[k])) ELSE text[k]]

\* The temporary placeholders that stand for the macros of a text.
Placeholders == <<"<macro 1>", "<macro 2>", "<macro 3>">>

IsPlaceholder(tok) == \E j \in 1..Len(Placeholders) : tok = Placeholders[j]

PlaceholderIndex(tok) == CHOOSE j \in 1..Len(Placeholders) : tok = Placeholders[j]

\* Every macro of the text replaced by a placeholder of its own.
Protect(text) ==
    [k \in 1..Len(text) |-> IF IsExpr(text[k]) THEN Placeholders[k] ELSE text[k]]

\* The placeholders replaced back by the macros they stand for.
Restore(text, original) ==
    [k \in 1..Len(text) |->
        IF IsPlaceholder(text[k]) THEN original[PlaceholderIndex(text[k])] ELSE text[k]]

NoBound == -1

Targets == {"user", "assistant_response", "world_book", "preset", "assistant_thinking"}

Placements == {"before_macro_skip", "before_macro_include", "after_macro"}

\* A rule: every match of find becomes replace, in the views it names. The
\* fields left out take their defaults: placement after_macro, every
\* target, no depth bound and no order bound.
Rule(find, replace, vs) ==
    [enabled |-> TRUE, find |-> find, replace |-> replace, views |-> vs,
     placement |-> "after_macro", targets |-> Targets,
     min_depth |-> NoBound, max_depth |-> NoBound,
     min_order |-> NoBound, max_order |-> NoBound]

\* re.sub over the characters of a text: a match is replaced wherever it
\* stands, the string literal inside a macro included.
ReplaceAll(text, find, replace) ==
    [k \in 1..Len(text) |->
        IF text[k] = find THEN replace
        ELSE IF IsExpr(text[k]) /\ Literal(text[k]) = find THEN Expr(replace)
        ELSE text[k]]

\* before_macro_skip without its placeholders.
UnprotectedSubstitute(rule, text) == ReplaceAll(text, rule.find, rule.replace)

\* One rule on one text. before_macro_skip: the macros are replaced by
\* placeholders, the regex is applied, the placeholders are replaced back.
Substitute(rule, text) ==
    IF rule.placement = "before_macro_skip"
    THEN Restore(ReplaceAll(Protect(text), rule.find, rule.replace), text)
    ELSE ReplaceAll(text, rule.find, rule.replace)

\* The target a content counts as, from its source type and its role.
TargetOf(src, role) ==
    CASE src = "preset" -> "preset"
      [] src = "world" -> "world_book"
      [] src = "conversation" /\ role = "user" -> "user"
      [] OTHER -> "assistant_response"

\* A part whose source identifier ends in :relative.
IsRelative(part) ==
    part.ident # <<>> /\ part.ident[Len(part.ident)] = "relative"

WithinBounds(rule, depth, order) ==
    /\ rule.min_depth = NoBound \/ depth >= rule.min_depth
    /\ rule.max_depth = NoBound \/ depth <= rule.max_depth
    /\ rule.min_order = NoBound \/ order >= rule.min_order
    /\ rule.max_order = NoBound \/ order <= rule.max_order

\* Relative parts handled like the parts of the chat.
MarkerBlindTouches(rule, part, role) ==
    /\ TargetOf(part.src, role) \in rule.targets
    /\ WithinBounds(rule, part.depth, part.order)

\* A rule touches a part only if the part is not at a relative position,
\* counts as one of the rule's targets and lies within the rule's bounds.
Touches(rule, part, role) ==
    /\ ~IsRelative(part)
    /\ TargetOf(part.src, role) \in rule.targets
    /\ WithinBounds(rule, part.depth, part.order)

\* A rule without views taken as a rule for every view.
DefaultAllRuleApplies(rule, view) ==
    rule.enabled /\ (rule.views = {} \/ view \in rule.views)

\* A rule applied whatever views it names.
ViewBlindRuleApplies(rule, view) == rule.enabled

\* A rule is applied to a view only if it is enabled and names the view; a
\* rule without views is applied to none.
RuleApplies(rule, view) == rule.enabled /\ view \in rule.views

ApplyRule(msgs, rule) ==
    [k \in 1..Len(msgs) |->
        [msgs[k] EXCEPT !.parts =
            [m \in 1..Len(msgs[k].parts) |->
                IF Touches(rule, msgs[k].parts[m], msgs[k].role)
                THEN [msgs[k].parts[m] EXCEPT !.text =
                        Substitute(rule, msgs[k].parts[m].text)]
                ELSE msgs[k].parts[m]]]]

\* apply(view_copy, rules): the rules of the view, one after the other, on
\* the messages of the copy; the result is a list of its own.
RECURSIVE ApplyRules(_, _, _)
ApplyRules(msgs, rs, view) ==
    IF rs = <<>> THEN msgs
    ELSE ApplyRules(IF RuleApplies(Head(rs), view) THEN ApplyRule(msgs, Head(rs))
                    ELSE msgs,
                    Tail(rs), view)

ViewChoices ==
    { {}, {"raw_view"}, {"user_view"}, {"assistant_view"},
      {"user_view", "assistant_view"}, Views }

RuleChoices ==
    {Rule("a", "b", vs) : vs \in ViewChoices} \cup {Rule("b", "c", vs) : vs \in ViewChoices}

\* What a format holds for the messages msgs and the rules rs: the rules of
\* its view are applied part by part, while the parts still carry their
\* provenance, and the tier is given its shape afterwards.
FormatOutput(o, msgs, rs) ==
    LET tier == TierOf(o)
        parts == SelectParts(tier, msgs)
    IN  Finish(tier, IF WithRegex(o) THEN ApplyRules(parts, rs, ViewOf(tier))
                     ELSE parts)

NotBuilt == [built |-> FALSE, copy |-> <<>>, res |-> <<>>]

InitRegex ==
    /\ mode = "regex"
    /\ \E content \in CanonPool :
         /\ canon0 = content
         /\ canon = ListAt(0, Len(content))
         /\ heap = Store([a \in Addresses |-> FreeCell], 0, content)
    /\ \E n \in 0..MaxRules : rules \in [1..n -> RuleChoices]
    /\ views = [o \in FormatNames |-> NotBuilt]
    /\ work = <<>> /\ applied = <<>>
    /\ decls = <<>> /\ frags = <<>>
    /\ pc = "assembled"
    /\ EngineIdle
    /\ ParallelIdle
    /\ ComponentsIdle
    /\ AssembleIdle

\* One of the six formats is produced from a deep copy of the canonical
\* list: the parts of its tier, with the rules of its view applied.
BuildView ==
    /\ mode = "regex"
    /\ \E o \in FormatNames :
         /\ ~views[o].built
         /\ LET c == DeepCopy(heap, canon, CopyBase(o))
                result == FormatOutput(o, Deref(c.heap, c.list), rules)
            IN  /\ heap' = Store(c.heap, ResultBase(o), result)
                /\ views' = [views EXCEPT ![o] =
                                [built |-> TRUE, copy |-> c.list,
                                 res |-> ListAt(ResultBase(o), Len(result))]]
    /\ UNCHANGED <<mode, decls, frags, pc, engineVars, canon, canon0, rules, work, applied, assembleVars, parallelVars, componentVars>>

NextRegex ==
    \/ BuildView

SpecRegex == InitRegex /\ [][NextRegex]_vars

----------------------------------------------------------------------------
(* The processed stage of one view: regex before the macros, the macros, *)
(* regex after the macros                                                  *)

\* The rule takes part in the regex pass of every placement.
PlacementBlind(rule, placement) == TRUE

\* A rule takes part in the regex pass of its own placement only.
InPlacement(rule, placement) == rule.placement = placement

\* apply_regex_to_content for the parts of a list: the rules of the
\* placement and of the view, in rule order.
ApplyPlaced(msgs, rs, placement, view) ==
    LET OfPlacement(rule) == InPlacement(rule, placement)
    IN  ApplyRules(msgs, SelectSeq(rs, OfPlacement), view)

\* Macro and code execution over the parts of a list.
ExpandMacros(msgs) ==
    [k \in 1..Len(msgs) |->
        [msgs[k] EXCEPT !.parts =
            [m \in 1..Len(msgs[k].parts) |->
                [msgs[k].parts[m] EXCEPT !.text = ExpandText(msgs[k].parts[m].text)]]]]

\* The passes of the processed stage, in the order they run.
Passes == <<"before_macro_skip", "before_macro_include", "macro", "after_macro">>

RunPass(pass, msgs, rs, view) ==
    IF pass = "macro" THEN ExpandMacros(msgs) ELSE ApplyPlaced(msgs, rs, pass, view)

\* The messages after the first n passes.
RECURSIVE AfterPasses(_, _, _, _)
AfterPasses(n, msgs, rs, view) ==
    IF n = 0 THEN msgs
    ELSE RunPass(Passes[n], AfterPasses(n - 1, msgs, rs, view), rs, view)

\* The lists the processed stage is run on: parts at a relative position
\* and parts of the chat, with macros in their texts.
PhasePool ==
    { << Message("system",
            <<PartAt("preset", <<"a", "{{a}}">>, <<"main", "relative">>, 0, 10),
              PartAt("world", <<"a", "{{b}}">>, <<"world_entry_1", "in-chat", "depth_2">>, 2, 20)>>),
         Message("user",
            <<PartAt("conversation", <<"{{a}}", "b", "a">>, <<"user_input", "in-chat", "depth_1">>, 1, 10)>>) >>,
      << Message("assistant",
            <<PartAt("char", <<"a", "{{a}}">>, <<"char_greeting", "in-chat", "depth_1">>, 1, 10)>>),
         Message("system",
            <<PartAt("world", <<"b", "{{b}}", "a">>, <<"worldInfoAfter", "relative">>, 0, 20),
              PartAt("preset", <<"b">>, <<"preset_1", "in-chat", "depth_2">>, 2, 10)>>) >> }

\* The reach of a rule: its views, its targets and its bounds.
Reaches ==
    { [views |-> {"user_view", "assistant_view"}, targets |-> Targets,
       min_depth |-> NoBound, max_order |-> NoBound],
      [views |-> {"user_view"}, targets |-> {"user", "preset"},
       min_depth |-> NoBound, max_order |-> 10],
      [views |-> {"assistant_view"}, targets |-> Targets,
       min_depth |-> 2, max_order |-> NoBound] }

PlacedRule(find, replace, placement, reach) ==
    [Rule(find, replace, reach.views) EXCEPT
        !.placement = placement, !.targets = reach.targets,
        !.min_depth = reach.min_depth, !.max_order = reach.max_order]

PlacedRuleChoices ==
    {PlacedRule("a", "b", pl, reach) : pl \in Placements, reach \in Reaches}
    \cup {PlacedRule("b", "c", pl, reach) : pl \in Placements, reach \in Reaches}

\* The entry of the history for a pass: the pass, the rules it applied and
\* whether the texts it ran on still held macros.
PassEntry(pass, msgs, rs, view) ==
    LET OfPlacement(rule) == InPlacement(rule, pass) /\ RuleApplies(rule, view)
    IN  [pass |-> pass,
         rules |-> IF pass = "macro" THEN <<>> ELSE SelectSeq(rs, OfPlacement),
         macros |-> \E k \in 1..Len(msgs) : \E m \in 1..Len(msgs[k].parts) :
                        HasExpr(msgs[k].parts[m].text)]

InitPhase ==
    /\ mode = "phase"
    /\ \E content \in PhasePool : canon0 = content
    /\ \E view \in {"user_view", "assistant_view"} :
         work = [view |-> view, msgs |-> SelectParts("processed", canon0)]
    /\ \E n \in 0..MaxRules : rules \in [1..n -> PlacedRuleChoices]
    /\ applied = <<>>
    /\ heap = <<>> /\ canon = <<>> /\ views = <<>>
    /\ decls = <<>> /\ frags = <<>>
    /\ pc = "before_macro_skip"
    /\ EngineIdle
    /\ ParallelIdle
    /\ ComponentsIdle
    /\ AssembleIdle

RegexPass(pass, next) ==
    /\ mode = "phase" /\ pc = pass
    /\ work' = [work EXCEPT !.msgs = RunPass(pass, work.msgs, rules, work.view)]
    /\ applied' = Append(applied, PassEntry(pass, work.msgs, rules, work.view))
    /\ pc' = next
    /\ UNCHANGED <<mode, decls, frags, engineVars, heap, canon, canon0, rules, views, assembleVars, parallelVars, componentVars>>

\* Regex before the macros, the macros kept behind placeholders.
RegexBeforeMacroSkip == RegexPass("before_macro_skip", "before_macro_include")

\* Regex before the macros, the inside of the macros included.
RegexBeforeMacroInclude == RegexPass("before_macro_include", "macro")

\* Macro and code execution.
ExecuteMacros == RegexPass("macro", "after_macro")

\* Regex after the macros.
RegexAfterMacro == RegexPass("after_macro", "processed")

NextPhase ==
    \/ RegexBeforeMacroSkip
    \/ RegexBeforeMacroInclude
    \/ ExecuteMacros
    \/ RegexAfterMacro

SpecPhase == InitPhase /\ [][NextPhase]_vars

----------------------------------------------------------------------------
(* Prompt assembly: role merging and the three output formats *)

\* The messages left as they were placed.
KeepSeparate(msgs) == msgs

\* Adjacent messages of the same role become one message that holds the
\* content parts of all of them, in order; the texts are not joined.
RECURSIVE MergeAdjacentRoles(_)
MergeAdjacentRoles(msgs) ==
    IF Len(msgs) <= 1 THEN msgs
    ELSE LET rest == MergeAdjacentRoles(Tail(msgs))
         IN  IF Head(msgs).role = Head(rest).role
             THEN <<Message(Head(msgs).role, Head(msgs).parts \o Head(rest).parts)>>
                  \o Tail(rest)
             ELSE <<Head(msgs)>> \o rest

Tiers == {"raw", "processed", "clean"}

FragmentTexts == {<<"a">>, <<"a", "b">>}

\* The source type of the entries of a role.
SourceOfRole(role) == IF role = "system" THEN "preset" ELSE "conversation"

\* The message of the k-th placed fragment: one content part that keeps
\* the provenance of the fragment and whether it was activated.
PlacedMessage(k, f) ==
    Message(f.role,
        <<[PartAt(SourceOfRole(f.role), f.text, <<EntryIds[k], "in-chat", "depth_1">>, 1, 10)
             EXCEPT !.active = f.active]>>)

PlacedFragments == [role : Roles, active : BOOLEAN, text : FragmentTexts]

NotProduced == [built |-> FALSE, msgs |-> <<>>]

InitAssemble ==
    /\ mode = "assemble"
    /\ \E n \in 1..MaxFrags :
         \E fs \in [1..n -> PlacedFragments] :
            placed = [k \in 1..n |-> PlacedMessage(k, fs[k])]
    /\ assembled = <<>>
    /\ tiers = [t \in Tiers |-> NotProduced]
    /\ decls = <<>> /\ frags = <<>>
    /\ pc = "placed"
    /\ EngineIdle
    /\ ParallelIdle
    /\ ComponentsIdle
    /\ RegexIdle

\* Role merging: the canonical list.
MergeRoles ==
    /\ mode = "assemble" /\ pc = "placed"
    /\ assembled' = MergeAdjacentRoles(placed)
    /\ pc' = "merged"
    /\ UNCHANGED <<mode, decls, frags, engineVars, regexVars, placed, tiers, parallelVars, componentVars>>

ToFormat(tier) ==
    /\ mode = "assemble" /\ pc = "merged"
    /\ ~tiers[tier].built
    /\ tiers' = [tiers EXCEPT ![tier] =
                    [built |-> TRUE, msgs |-> DeriveTier(tier, assembled)]]
    /\ UNCHANGED <<mode, decls, frags, pc, engineVars, regexVars, placed, assembled, parallelVars, componentVars>>

\* to_raw_openai_format
ToRawOpenAIFormat == ToFormat("raw")

\* to_processed_openai_format
ToProcessedOpenAIFormat == ToFormat("processed")

\* to_clean_openai_format
ToCleanOpenAIFormat == ToFormat("clean")

NextAssemble ==
    \/ MergeRoles
    \/ ToRawOpenAIFormat
    \/ ToProcessedOpenAIFormat
    \/ ToCleanOpenAIFormat

SpecAssemble == InitAssemble /\ [][NextAssemble]_vars

----------------------------------------------------------------------------
(* Builds of the same configuration, one after the other *)

\* The message of an entry of the final message list.
MessageOf(entry) == Message(entry.role, <<Part(entry.src, TRUE, entry.texts)>>)

\* The clean format of the final message list of a build.
CleanOutput(final) ==
    DeriveTier("clean", MergeAdjacentRoles([k \in 1..Len(final) |-> MessageOf(final[k])]))

\* Another build request over the same configuration.
NewBuild ==
    /\ mode = "build" /\ pc = "done" /\ build < MaxBuilds
    /\ build' = build + 1
    /\ frags' = Collect(decls)
    /\ scopes' = ScopesForNewBuild(scopes)
    /\ start' = ScopesForNewBuild(scopes)
    /\ cache' = ClearEnabledCache(cache)
    /\ idx' = 1
    /\ pc' = IF Collect(decls) = <<>> THEN "done" ELSE "enabled"
    /\ activation' = Pending(Collect(decls))
    /\ out' = <<>> /\ trace' = <<>> /\ writes' = <<>> /\ evals' = <<>>
    /\ prev' = Append(prev, [start |-> start, clean |-> CleanOutput(out),
                              disabled |-> \E i \in 1..Len(activation) :
                                              activation[i] = "disabled"])
    /\ UNCHANGED <<mode, decls, regexVars, assembleVars, parallelVars, componentVars>>

Init ==
    /\ mode = "build"
    /\ RegexIdle
    /\ AssembleIdle
    /\ ParallelIdle
    /\ ComponentsIdle
    /\ \E S \in SUBSET (1..Len(Pool)) :
         /\ Cardinality(S) \in 1..MaxFrags
         /\ \E ord \in [S -> Orders] : decls = Declare(S, ord)
    /\ frags = Collect(decls)
    /\ scopes = EmptyScopes
    /\ start = EmptyScopes
    /\ cache = NoCache
    /\ idx = 1
    /\ pc = IF frags = <<>> THEN "done" ELSE "enabled"
    /\ activation = Pending(frags)
    /\ out = <<>> /\ trace = <<>> /\ writes = <<>> /\ evals = <<>>
    /\ build = 1 /\ prev = <<>>

Next ==
    \/ ResolveEnabled
    \/ ExecCodeBlock
    \/ ExpandContent
    \/ NewBuild

Spec == Init /\ [][Next]_vars

----------------------------------------------------------------------------
(* Cancellation of a build *)

\* A build that can be cancelled at any step.
CancelAnywhere(p) == p \in {"enabled", "code", "content"}

\* A build can be cancelled between two entries: when the loop is about to
\* start the next entry, not within one.
CanCancel(p) == p = "enabled"

Cancel ==
    /\ mode = "build" /\ CanCancel(pc)
    /\ pc' = "cancelled"
    /\ UNCHANGED <<mode, decls, frags, engineVars, regexVars, assembleVars, parallelVars, componentVars>>

NextCancel ==
    \/ ResolveEnabled
    \/ ExecCodeBlock
    \/ ExpandContent
    \/ NewBuild
    \/ Cancel

SpecCancel == Init /\ [][NextCancel]_vars

----------------------------------------------------------------------------
(* Builds that run in parallel *)

MaxParFrags == 2

Builds == {1, 2}

\* The pool entries the parallel builds are made of: the ones that read or
\* write a variable another build may read or write.
ParIds == {i \in 1..Len(Pool) : Pool[i].id \in {"init", "gate", "turn", "flag", "seen"}}

\* The loop state of a build about to start.
NewLoop(fs) ==
    [frags |-> fs, idx |-> 1, pc |-> "enabled", activation |-> Pending(fs),
     cache |-> NoCache, out |-> <<>>]

\* One step of the build loop (ResolveEnabled, ExecCodeBlock, ExpandContent)
\* as a function of the loop state and of the store the build works on.
StepOf(b, sc) ==
    LET f == b.frags[b.idx]
        n == Len(b.frags)
        en == EvaluateEnabled(f, b.cache, sc)
        act == [b.activation EXCEPT ![b.idx] = IF en.enabled THEN "enabled" ELSE "disabled"]
        code == ExecuteCode(f.code, f.src, sc)
        cont == ProcessPythonMacros(f.content, f.src, sc)
        at(i, p, e, a) == NextPos(i, p, e, a, n)
    IN  CASE b.pc = "enabled" ->
               [loop |-> [b EXCEPT !.activation = act,
                                   !.cache = IF en.enabled THEN en.cache
                                             ELSE ClearEnabledCache(en.cache),
                                   !.idx = at(b.idx, "enabled", en.enabled, act).idx,
                                   !.pc = at(b.idx, "enabled", en.enabled, act).pc],
                sc |-> en.sc]
          [] b.pc = "code" ->
               [loop |-> [b EXCEPT !.out = Append(@,
                                       [f |-> b.idx, id |-> f.id, role |-> f.role,
                                        src |-> f.src,
                                        codeDiag |-> IF code.success THEN ""
                                                     ELSE DiagText(code.error),
                                        texts |-> <<>>, expanded |-> FALSE]),
                                   !.idx = at(b.idx, "code", TRUE, b.activation).idx,
                                   !.pc = at(b.idx, "code", TRUE, b.activation).pc],
                sc |-> code.sc]
          [] b.pc = "content" ->
               [loop |-> [b EXCEPT !.out = [k \in 1..Len(b.out) |->
                                       IF b.out[k].f = b.idx
                                       THEN [b.out[k] EXCEPT !.texts = cont.texts,
                                                             !.expanded = TRUE]
                                       ELSE b.out[k]],
                                   !.cache = ClearEnabledCache(b.cache),
                                   !.idx = at(b.idx, "content", TRUE, b.activation).idx,
                                   !.pc = at(b.idx, "content", TRUE, b.activation).pc],
                sc |-> cont.sc]

\* The build alone: the first n steps of the loop over fs on a store of its
\* own, as far as the loop goes.
RECURSIVE Alone(_, _)
Alone(fs, n) ==
    IF n = 0 THEN [loop |-> NewLoop(fs), sc |-> EmptyScopes]
    ELSE LET a == Alone(fs, n - 1)
         IN  IF a.loop.pc = "done" THEN a ELSE StepOf(a.loop, a.sc)

\* Both builds on one store instance.
SameStore(b) == 1

\* Every build owns a Scope Store instance.
StoreOf(b) == b

\* The instance that holds the global scope the builds share.
SharedStore == 3

\* A lock that is never found taken.
LockIgnored(l) == TRUE

LockFree(l) == l = 0

\* The store as build b sees it: its own instance, with the shared global
\* scope in the place of its own when the builds share one.
StoreView(b) ==
    IF sharing
    THEN [stores[StoreOf(b)] EXCEPT !["global"] = stores[SharedStore]["global"]]
    ELSE stores[StoreOf(b)]

\* The instances after build b left sc.
StoresAfter(b, sc) ==
    IF sharing
    THEN [stores EXCEPT ![StoreOf(b)] = sc,
                        ![SharedStore] = [@ EXCEPT !["global"] = sc["global"]]]
    ELSE [stores EXCEPT ![StoreOf(b)] = sc]

InitParallel ==
    /\ mode = "parallel"
    /\ \E S1 \in SUBSET ParIds, S2 \in SUBSET ParIds :
         /\ Cardinality(S1) \in 1..MaxParFrags
         /\ Cardinality(S2) \in 1..MaxParFrags
         /\ par = [b \in Builds |->
                     [loop |-> NewLoop(Collect(Declare(IF b = 1 THEN S1 ELSE S2,
                                                       [i \in ParIds |-> 10]))),
                      steps |-> 0, access |-> "idle"]]
    /\ stores = [i \in 1..3 |-> EmptyScopes]
    /\ sharing \in BOOLEAN
    /\ lock = 0
    /\ decls = <<>> /\ frags = <<>>
    /\ pc = "running"
    /\ EngineIdle
    /\ RegexIdle
    /\ AssembleIdle
    /\ ComponentsIdle

\* Build b takes the lock of the shared global scope.
Acquire(b) ==
    /\ mode = "parallel" /\ sharing
    /\ par[b].loop.pc # "done" /\ par[b].access = "idle"
    /\ LockFree(lock)
    /\ lock' = b
    /\ par' = [par EXCEPT ![b].access = "held"]
    /\ UNCHANGED <<mode, decls, frags, pc, engineVars, regexVars, assembleVars, stores, sharing, componentVars>>

\* Build b runs one step of its loop on its store: straight away on an
\* isolated instance, under the lock when the global scope is shared.
BuildStep(b) ==
    /\ mode = "parallel"
    /\ par[b].loop.pc # "done"
    /\ par[b].access = IF sharing THEN "held" ELSE "idle"
    /\ LET r == StepOf(par[b].loop, StoreView(b))
       IN  /\ par' = [par EXCEPT ![b] = [loop |-> r.loop, steps |-> @.steps + 1,
                                         access |-> IF sharing THEN "accessed" ELSE "idle"]]
           /\ stores' = StoresAfter(b, r.sc)
    /\ UNCHANGED <<mode, decls, frags, pc, engineVars, regexVars, assembleVars, sharing, lock, componentVars>>

\* Build b gives the lock back.
Release(b) ==
    /\ mode = "parallel" /\ sharing
    /\ par[b].access = "accessed"
    /\ lock' = 0
    /\ par' = [par EXCEPT ![b].access = "idle"]
    /\ UNCHANGED <<mode, decls, frags, pc, engineVars, regexVars, assembleVars, stores, sharing, componentVars>>

NextParallel ==
    \/ \E b \in Builds : Acquire(b)
    \/ \E b \in Builds : BuildStep(b)
    \/ \E b \in Builds : Release(b)

SpecParallel == InitParallel /\ [][NextParallel]_vars

----------------------------------------------------------------------------
(* Properties of the build loop *)

StepRank(step) ==
    CASE step = "enabled" -> 1 [] step = "code" -> 2 [] step = "content" -> 3

StepsOf(i) == {p \in 1..Len(trace) : trace[p].f = i}

----------------------------------------------------------------------------
(* Forward visibility of scope writes *)

IsRead(e) == e.op \in {"get", "ge", "cond"}

\* The writes to the variable a name resolves to (for source type src) made
\* before entry j's step: by an earlier entry, or by an earlier step of j.
WritesBefore(name, src, j, step) ==
    LET r == ResolveName(name, src)
    IN  {p \in 1..Len(writes) :
            /\ writes[p].scope = r.scope /\ writes[p].key = r.key
            /\ \/ writes[p].f < j
               \/ writes[p].f = j /\ StepRank(writes[p].step) < StepRank(step)}

\* The value a read of name must observe at entry j's step: the latest
\* earlier write, or what the build started with.
Visible(name, src, j, step) ==
    LET W == WritesBefore(name, src, j, step)
        r == ResolveName(name, src)
    IN  IF W = {} THEN start[r.scope][r.key]
        ELSE writes[CHOOSE p \in W : \A q \in W : q <= p].v

\* What a reading expression yields when the variable has the value val
\* (nothing when the comparison fails).
ReadResult(e, val) ==
    CASE e.op = "get" -> val
      [] e.op = "ge" -> IF val = Unset THEN "" ELSE BoolStr(IntOf(val) >= IntOf(e.v))
      [] e.op = "cond" -> IF GeVal(val, e.v) THEN "unlocked" ELSE "locked"

PartOf(id) == CHOOSE k \in 1..Len(out) : out[k].id = id

HasPart(id) == \E k \in 1..Len(out) : out[k].id = id

Position(id) == CHOOSE i \in 1..Len(frags) : frags[i].id = id

Collected(id) == \E i \in 1..Len(frags) : frags[i].id = id

C2_WitnessSwapped ==
    /\ pc = "done"
    /\ HasPart("gate") /\ HasPart("init")
    /\ Position("gate") < Position("init")
    /\ out[PartOf("gate")].texts = <<"locked">>

----------------------------------------------------------------------------
(* Activation guards the code_block and the content *)

DeclaredLiteralFalse(id) ==
    \E d \in 1..Len(decls) : decls[d].id = id /\ IsLiteralFalse(decls[d])

\* C3 as stated: entries whose enabled is the literal false are left out
\* before any code_block runs, code_block and content run only for an entry
\* whose enabled resolved to true, and an entry that is not enabled makes no
\* scope write at all in the build.
C3_DisabledWritesNothing ==
    /\ \A i \in 1..Len(frags) : ~IsLiteralFalse(frags[i])
    /\ \A p \in 1..Len(trace) :
         trace[p].step \in {"code", "content"} => activation[trace[p].f] = "enabled"
    /\ \A p \in 1..Len(writes) : activation[writes[p].f] = "enabled"

\* C3, amended: entries whose enabled is the literal false are left out
\* before any code_block runs, code_block and content run only for an entry
\* whose enabled resolved to true, and the code_block and the content of an
\* entry that is not enabled make no scope write (a write made by the
\* evaluation of the enabled expression itself takes effect).
C3_DisabledCodeAndContentWriteNothing ==
    /\ \A i \in 1..Len(frags) : ~IsLiteralFalse(frags[i])
    /\ \A p \in 1..Len(trace) :
         trace[p].step \in {"code", "content"} => activation[trace[p].f] = "enabled"
    /\ \A p \in 1..Len(writes) :
         \/ activation[writes[p].f] = "enabled"
         \/ writes[p].step = "enabled"
    /\ \A i \in 1..Len(frags) :
         activation[i] = "disabled" => ~HasPart(frags[i].id)

\* An entry with a writing code_block was found disabled and an entry with
\* the literal false was declared: the build ended with neither write made.
C3_Witness ==
    /\ pc = "done" /\ build = 1
    /\ Collected("badpred") /\ activation[Position("badpred")] = "disabled"
    /\ DeclaredLiteralFalse("off")
    /\ scopes["global"]["x"] = Unset
    /\ scopes["char"]["level"] = Unset

----------------------------------------------------------------------------
(* Errors stay inside the entry that raised them *)

Fails(e) == e.op = "err"

HasFailure(f) ==
    \/ f.enabled.kind # "bool" /\ Fails(f.enabled.e)
    \/ Fails(f.code)
    \/ \E m \in 1..Len(f.content) : Fails(f.content[m])

\* What an expanded part must look like: one text per content span, the
\* diagnostic exactly where the span fails, and the code_block's diagnostic
\* exactly when the code_block fails.
ContainedFailures(k) ==
    LET f == frags[out[k].f]
    IN  /\ out[k].codeDiag = IF Fails(f.code) THEN DiagText(f.code.v) ELSE ""
        /\ out[k].expanded =>
             /\ Len(out[k].texts) = Len(f.content)
             /\ \A m \in 1..Len(f.content) :
                  /\ Fails(f.content[m]) => out[k].texts[m] = DiagText(f.content[m].v)
                  /\ ~Fails(f.content[m]) => out[k].texts[m] \notin Diagnostics
                  /\ f.content[m].op = "lit" => out[k].texts[m] = f.content[m].v

BuildGoesOn ==
    /\ pc \in {"enabled", "code", "content", "done"}
    /\ pc # "done" => ENABLED (ResolveEnabled \/ ExecCodeBlock \/ ExpandContent)
    /\ pc = "done" => \A i \in 1..Len(frags) : activation[i] # "pending"

----------------------------------------------------------------------------
(* Scope resolution of variable names *)

\* The scope a name must land in, read off the prefix table: an unprefixed
\* name belongs to the source type of the fragment that uses it.
ExpectedScope(name, src) ==
    IF Len(name) = 1 THEN src
    ELSE [world |-> "world", preset |-> "preset", char |-> "char",
          character |-> "char", conv |-> "conversation",
          conversation |-> "conversation", global |-> "global"][name[1]]

WritesTo(s, k) ==
    {p \in 1..Len(writes) :
        /\ ExpectedScope(writes[p].name, frags[writes[p].f].src) = s
        /\ writes[p].name[Len(writes[p].name)] = k}

\* The getvar spans of an expanded part (of a content that writes nothing)
\* show the last value written, up to the entry's own code_block, under a
\* name that resolves to the same scope and key.
ReadsResolved(k) ==
    LET i == out[k].f
        f == frags[i]
    IN  (\A m \in 1..Len(f.content) : f.content[m].op # "set") =>
           \A m \in 1..Len(f.content) :
              f.content[m].op = "get" =>
                 LET n == f.content[m].name
                     s == ExpectedScope(n, f.src)
                     W == {p \in WritesTo(s, n[Len(n)]) : writes[p].f <= i}
                 IN  out[k].texts[m] =
                        IF W = {} THEN start[s][n[Len(n)]] ELSE writes[Max(W)].v

----------------------------------------------------------------------------
(* Activation predicates *)

ReadsUnset(n) ==
    LET f == frags[evals[n].f]
    IN  /\ f.enabled.kind # "bool"
        /\ f.enabled.e.op \in {"get", "ge"}
        /\ start[ExpectedScope(f.enabled.e.name, f.src)]
                [f.enabled.e.name[Len(f.enabled.e.name)]] = Unset
        /\ \A p \in WritesTo(ExpectedScope(f.enabled.e.name, f.src),
                             f.enabled.e.name[Len(f.enabled.e.name)]) :
              writes[p].f > evals[n].f

\* The predicate was evaluated when the loop reached the entry: after every
\* step of the entries before it and before any step of the entries after.
EvaluatedAtOwnTurn(n) ==
    /\ evals[n].at \in 1..Len(trace)
    /\ trace[evals[n].at] = Event(evals[n].f, "enabled")
    /\ \A p \in 1..Len(trace) :
         /\ p < evals[n].at => trace[p].f < evals[n].f
         /\ p > evals[n].at => trace[p].f >= evals[n].f

\* C6: a predicate that reads a variable no earlier entry has set, a later
\* writer or not, sees the unset default: it evaluates to false, raises no
\* error, and is evaluated at the entry's own turn, not deferred.
C6_UnsetReadsFalsy ==
    \A n \in 1..Len(evals) :
       ReadsUnset(n) =>
          /\ ~evals[n].result
          /\ evals[n].error = ""
          /\ activation[evals[n].f] = "disabled"
          /\ EvaluatedAtOwnTurn(n)

EnabledSteps(i) == {p \in 1..Len(trace) : trace[p] = Event(i, "enabled")}

ActivationDecidedOnce ==
    /\ \A i \in 1..Len(frags) :
         /\ Cardinality(EnabledSteps(i)) <= 1
         /\ Cardinality({n \in 1..Len(evals) : evals[n].f = i}) =
               Cardinality(EnabledSteps(i))
         /\ activation[i] # "pending" <=> EnabledSteps(i) # {}
    /\ \A n \in 1..Len(evals) :
         /\ EvaluatedAtOwnTurn(n)
         /\ evals[n].result = evals[n].fresh
         /\ activation[evals[n].f] = IF evals[n].result THEN "enabled" ELSE "disabled"

ActivationNeverRevisited ==
    build' = build =>
       \A i \in 1..Len(frags) :
          activation[i] # "pending" => activation'[i] = activation[i]

C7_WitnessSameBuild ==
    /\ build = 1 /\ pc = "done"
    /\ Collected("turn")
    /\ activation[Position("turn")] = "disabled"
    /\ EvaluateEnabled(frags[Position("turn")], NoCache, scopes).enabled

----------------------------------------------------------------------------
(* The order the collector returns *)

\* a and b are equal on every sort key.
SameKeys(a, b) ==
    a.order = b.order /\ a.depth = b.depth /\ a.role = b.role

\* The key sequence order, depth, role priority, declaration index of a is
\* lexicographically smaller than that of b.
KeyLess(a, b) ==
    \/ a.order < b.order
    \/ a.order = b.order /\ a.depth < b.depth
    \/ a.order = b.order /\ a.depth = b.depth
         /\ RolePriority(a.role) < RolePriority(b.role)
    \/ SameKeys(a, b) /\ a.decl < b.decl

CollectedInOrder ==
    pc \in {"collected", "recollected"} =>
       /\ Len(frags) = Len(decls)
       /\ \A d \in 1..Len(decls) : \E i \in 1..Len(frags) : frags[i] = decls[d]
       /\ \A i, j \in 1..Len(frags) : i < j => KeyLess(frags[i], frags[j])

SameAgain == pc = "collected" /\ pc' = "recollected" => frags' = frags

----------------------------------------------------------------------------
(* The regex pipeline and the canonical list *)

Cells(addrs) == {addrs[k] : k \in 1..Len(addrs)}

BuiltFormats == {o \in FormatNames : views[o].built}

RECURSIVE RulesNaming(_, _)
RulesNaming(rs, view) ==
    IF rs = <<>> THEN <<>>
    ELSE (IF view \in Head(rs).views THEN <<Head(rs)>> ELSE <<>>)
            \o RulesNaming(Tail(rs), view)

----------------------------------------------------------------------------
(* Rules without views *)

Inert(rule) == rule.views = {}

RECURSIVE WithoutInert(_)
WithoutInert(rs) ==
    IF rs = <<>> THEN <<>>
    ELSE (IF Inert(Head(rs)) THEN <<>> ELSE <<Head(rs)>>) \o WithoutInert(Tail(rs))

\* C11: a rule whose views list is empty is inert: each of the six formats
\* is exactly what the same build produces with the rule removed, the
\* formats produced and the ones the canonical list still gives.
C11_EmptyViewsInert ==
    /\ \A o \in BuiltFormats :
         Deref(heap, views[o].res) = FormatOutput(o, canon0, WithoutInert(rules))
    /\ \A o \in FormatNames \ BuiltFormats :
         FormatOutput(o, Deref(heap, canon), rules)
            = FormatOutput(o, canon0, WithoutInert(rules))

\* All six formats are produced with a rule without views whose pattern
\* occurs in every format, next to a rule that did rewrite a format.
C11_Witness ==
    /\ mode = "regex"
    /\ BuiltFormats = FormatNames
    /\ \E k \in 1..Len(rules) :
         /\ Inert(rules[k])
         /\ \A o \in FormatNames :
              \E m \in 1..Len(DeriveTier(TierOf(o), canon0)) :
                 \E q \in 1..Len(DeriveTier(TierOf(o), canon0)[m].parts) :
                    \E t \in 1..Len(DeriveTier(TierOf(o), canon0)[m].parts[q].text) :
                       DeriveTier(TierOf(o), canon0)[m].parts[q].text[t] = rules[k].find
    /\ \E o \in FormatNames :
         Deref(heap, views[o].res) # DeriveTier(TierOf(o), canon0)

----------------------------------------------------------------------------
(* Parts at a relative position *)

\* Number of passes the processed stage has run.
PassesRun == Len(applied)

\* The messages of the same view at the same point of a build without any
\* regex rule.
WithoutRules == AfterPasses(PassesRun, SelectParts("processed", canon0), <<>>, work.view)

\* A rule that names the view of this build, with every target and no
\* bound, whose pattern occurs in the source text of the part.
ReachingRuleFor(part) ==
    \E r \in 1..Len(rules) :
        /\ RuleApplies(rules[r], work.view)
        /\ rules[r].targets = Targets
        /\ rules[r].min_depth = NoBound /\ rules[r].max_order = NoBound
        /\ \E k \in 1..Len(part.text) :
              \/ part.text[k] = rules[r].find
              \/ IsExpr(part.text[k]) /\ Literal(part.text[k]) = rules[r].find

----------------------------------------------------------------------------
(* Macros under before_macro_skip *)

\* The messages the processed stage started from.
Source == SelectParts("processed", canon0)

\* The part changed in the pass, by a before_macro_skip rule whose pattern
\* is the string literal of one of its macros.
MatchedInsideMacro(k, m) ==
    /\ work.msgs[k].parts[m].text # Source[k].parts[m].text
    /\ \E r \in 1..Len(applied[1].rules) :
          /\ Touches(applied[1].rules[r], Source[k].parts[m], Source[k].role)
          /\ \E i \in 1..Len(Source[k].parts[m].text) :
                /\ IsExpr(Source[k].parts[m].text[i])
                /\ Literal(Source[k].parts[m].text[i]) = applied[1].rules[r].find

\* C13: a before_macro_skip rule never changes the text of an embedded
\* expression: after the before_macro_skip pass every expression span of
\* every part stands where it stood, token for token, also when the
\* pattern of a rule matches the string literal inside the expression.
C13_SkipKeepsMacros ==
    (mode = "phase" /\ PassesRun = 1) =>
        \A k \in 1..Len(Source) : \A m \in 1..Len(Source[k].parts) :
            /\ Len(work.msgs[k].parts[m].text) = Len(Source[k].parts[m].text)
            /\ \A i \in 1..Len(Source[k].parts[m].text) :
                  IsExpr(Source[k].parts[m].text[i]) =>
                      work.msgs[k].parts[m].text[i] = Source[k].parts[m].text[i]

\* The before_macro_skip pass has run and changed a part around a macro
\* whose string literal the pattern matches.
C13_Witness ==
    /\ mode = "phase" /\ PassesRun = 1
    /\ applied[1].pass = "before_macro_skip"
    /\ \E k \in 1..Len(Source) : \E m \in 1..Len(Source[k].parts) : MatchedInsideMacro(k, m)

----------------------------------------------------------------------------
(* Placement and the order of the passes *)

\* The rules of the view of this build.
RulesOfView ==
    LET OfView(rule) == RuleApplies(rule, work.view)
    IN  SelectSeq(rules, OfView)

RulesPlaced(placement) ==
    LET Placed(rule) == rule.placement = placement
    IN  SelectSeq(RulesOfView, Placed)

MacroPassBefore(n) == \E j \in 1..(n - 1) : applied[j].pass = "macro"

\* C14: placement fixes when a rule is matched. The passes run in the
\* order regex before the macros, macro and code execution, regex after
\* the macros; a before_macro_skip or before_macro_include rule is applied
\* in its own pass, before the macro pass, on texts that still hold their
\* macros; an after_macro rule is applied only after the macro pass, on
\* texts without any macro, so that nothing but the macro pass has acted
\* on the texts until then when every rule of the view is after_macro.
C14_PlacementFixesTiming ==
    mode = "phase" =>
        /\ PassesRun <= Len(Passes)
        /\ \A n \in 1..PassesRun :
              /\ applied[n].pass = Passes[n]
              /\ applied[n].pass # "macro" => applied[n].rules = RulesPlaced(applied[n].pass)
              /\ applied[n].pass \in {"before_macro_skip", "before_macro_include"} =>
                    ~MacroPassBefore(n) /\ applied[n].macros
              /\ applied[n].pass = "after_macro" =>
                    MacroPassBefore(n) /\ ~applied[n].macros
        /\ (PassesRun = 3 /\ RulesOfView = RulesPlaced("after_macro")) =>
              work.msgs = ExpandMacros(Source)

\* The stage is complete: a before_macro_include rule rewrote the string
\* literal of a macro before it was expanded, and an after_macro rule was
\* applied after the macro pass.
C14_Witness ==
    /\ mode = "phase" /\ pc = "processed" /\ PassesRun = Len(Passes)
    /\ applied[2].rules # <<>> /\ applied[4].rules # <<>>
    /\ \E k \in 1..Len(Source) : \E m \in 1..Len(Source[k].parts) :
          \E i \in 1..Len(Source[k].parts[m].text) :
              /\ Source[k].parts[m].text[i] = Expr("a")
              /\ work.msgs[k].parts[m].text[i] = Value("b")

----------------------------------------------------------------------------
(* The canonical list after role merging *)

\* The content parts of a list of messages, in order.
RECURSIVE AllParts(_)
AllParts(msgs) ==
    IF msgs = <<>> THEN <<>> ELSE Head(msgs).parts \o AllParts(Tail(msgs))

\* The role of the message of every content part, in order.
RECURSIVE RolesOfParts(_)
RolesOfParts(msgs) ==
    IF msgs = <<>> THEN <<>>
    ELSE [m \in 1..Len(Head(msgs).parts) |-> Head(msgs).role] \o RolesOfParts(Tail(msgs))

\* C15: after placement and role merging no two adjacent messages of the
\* canonical list have the same role, and the content parts of a merged
\* message are the content parts of the messages it was merged from, in
\* order and one by one: no text is joined.
C15_MergedRoles ==
    (mode = "assemble" /\ pc = "merged") =>
        /\ \A k \in 1..(Len(assembled) - 1) : assembled[k].role # assembled[k + 1].role
        /\ AllParts(assembled) = AllParts(placed)
        /\ RolesOfParts(assembled) = RolesOfParts(placed)

\* Of three or more placed messages two adjacent ones had the same role and
\* different parts: the canonical list is shorter, has at least two
\* messages, and one of them holds several content parts.
C15_Witness ==
    /\ mode = "assemble" /\ pc = "merged"
    /\ Len(placed) >= 3 /\ Len(assembled) < Len(placed)
    /\ \E k \in 1..(Len(placed) - 1) :
          placed[k].role = placed[k + 1].role /\ placed[k].parts # placed[k + 1].parts
    /\ \E k \in 1..Len(assembled) : Len(assembled[k].parts) >= 2
    /\ Len(assembled) >= 2

----------------------------------------------------------------------------
(* The clean format *)

\* Texts with a blank line between one and the next.
RECURSIVE WithBlankLines(_)
WithBlankLines(texts) ==
    IF texts = <<>> THEN <<>>
    ELSE IF Len(texts) = 1 THEN texts[1]
    ELSE texts[1] \o <<"\n\n">> \o WithBlankLines(Tail(texts))

TextsOf(parts) == [m \in 1..Len(parts) |-> parts[m].text]

\* C16: the clean format holds, for every message of the processed format
\* and in the same order, exactly one pair of role and content; the
\* content is the texts of the message's parts, in order, with a blank
\* line between them, and carries no provenance. Two adjacent activated
\* system fragments are thus one system message whose content is both
\* texts joined by a blank line.
C16_CleanJoinsParts ==
    (mode = "assemble" /\ tiers["processed"].built /\ tiers["clean"].built) =>
        LET processed == tiers["processed"].msgs
            clean == tiers["clean"].msgs
        IN  /\ Len(clean) = Len(processed)
            /\ \A k \in 1..Len(clean) :
                  /\ clean[k].role = processed[k].role
                  /\ Len(clean[k].parts) = 1
                  /\ clean[k].parts[1].text = WithBlankLines(TextsOf(processed[k].parts))
                  /\ clean[k].parts[1].src = "" /\ clean[k].parts[1].ident = <<>>

\* Two adjacent activated system fragments: one system message in the
\* processed format with both parts, one in the clean format with both
\* texts and a blank line between them.
C16_Witness ==
    /\ mode = "assemble" /\ tiers["processed"].built /\ tiers["clean"].built
    /\ Len(placed) = 2
    /\ \A k \in 1..2 : placed[k].role = "system" /\ placed[k].parts[1].active
    /\ Len(tiers["processed"].msgs) = 1 /\ Len(tiers["processed"].msgs[1].parts) = 2
    /\ Len(tiers["clean"].msgs) = 1
    /\ tiers["clean"].msgs[1].parts[1].text =
          placed[1].parts[1].text \o <<"\n\n">> \o placed[2].parts[1].text

----------------------------------------------------------------------------
(* The raw and the processed format *)

\* C17: the raw format holds every fragment that was placed, activated or
\* not; the processed format holds exactly the fragments that were
\* activated, in order, every part with its provenance as placed.
C17_RawAllProcessedActive ==
    mode = "assemble" =>
        /\ tiers["raw"].built => AllParts(tiers["raw"].msgs) = AllParts(placed)
        /\ tiers["processed"].built =>
              /\ AllParts(tiers["processed"].msgs) = SelectSeq(AllParts(placed), IsActive)
              /\ \A k \in 1..Len(tiers["processed"].msgs) :
                    tiers["processed"].msgs[k].parts # <<>>

\* Both formats are produced from fragments of which one was activated and
\* one was not.
C17_Witness ==
    /\ mode = "assemble" /\ tiers["raw"].built /\ tiers["processed"].built
    /\ \E k \in 1..Len(placed) : placed[k].parts[1].active
    /\ \E k \in 1..Len(placed) : ~placed[k].parts[1].active
    /\ Len(AllParts(tiers["processed"].msgs)) < Len(AllParts(tiers["raw"].msgs))

----------------------------------------------------------------------------
(* Repeated builds *)

\* No declared entry has enabled false, and no entry of the build resolved
\* to disabled.
NoEnabledFalse ==
    /\ \A d \in 1..Len(decls) : ~IsLiteralFalse(decls[d])
    /\ \A i \in 1..Len(activation) : activation[i] # "disabled"

----------------------------------------------------------------------------
(* A cancelled build *)

StepsRun(i) == {trace[p].step : p \in {q \in 1..Len(trace) : trace[q].f = i}}

\* Every step of the entry that its activation calls for has run.
FullyProcessed(i) ==
    /\ activation[i] # "pending"
    /\ StepsRun(i) = IF activation[i] = "enabled"
                     THEN {"enabled", "code", "content"} ELSE {"enabled"}

\* No step of the entry has run and no write of it is in the store.
Untouched(i) ==
    /\ activation[i] = "pending"
    /\ StepsRun(i) = {}
    /\ \A w \in 1..Len(writes) : writes[w].f # i

\* C20: a build is cancelled only between two entries: the code_block and
\* the content of an entry run as one unit with respect to cancellation, so
\* that in a cancelled build every entry has had all its steps, with all
\* their scope writes, or none.
C20_CancelBetweenFragments ==
    /\ (mode = "build" /\ pc = "cancelled") =>
          \A i \in 1..Len(frags) : FullyProcessed(i) \/ Untouched(i)
    /\ (mode = "build" /\ pc \in {"code", "content"}) => ~ENABLED Cancel

\* A build cancelled after an entry that wrote to the store and before an
\* entry with a code_block.
C20_Witness ==
    /\ mode = "build" /\ pc = "cancelled"
    /\ writes # <<>>
    /\ \E i \in 1..Len(frags) : FullyProcessed(i) /\ activation[i] = "enabled"
    /\ \E i \in 1..Len(frags) : Untouched(i) /\ frags[i].code.op = "set"

----------------------------------------------------------------------------
(* Parallel builds *)

Accessing(b) == par[b].access # "idle"

C19_WitnessShared ==
    /\ mode = "parallel" /\ sharing /\ lock = 0
    /\ \A b \in Builds : par[b].loop.pc = "done"
    /\ stores[SharedStore]["global"]["x"] # Unset
    /\ par[2].loop # Alone(par[2].loop.frags, par[2].steps).loop

----------------------------------------------------------------------------
(* The time limit of the sandbox *)

MaxOps == 3
MaxCall == 7

\* signal.alarm(5): the time limit of one execution, in seconds.
TimeLimit == 5

\* The time one interpreted instruction takes at most, in seconds.
Epsilon == 1

\* The code under execution is a sequence of operations, each given by the
\* seconds it runs: an interpreted instruction runs no longer than Epsilon,
\* a call of a built-in (sum, sorted, max, min over a range) runs in the
\* interpreter's own code for as long as it takes.
Durations == 1..MaxCall

RECURSIVE Work(_)
Work(ops) == IF ops = <<>> THEN 0 ELSE Head(ops) + Work(Tail(ops))

InitSandbox ==
    /\ mode = "sandbox"
    /\ \E n \in 1..MaxOps : \E code \in [1..n -> Durations] :
         sandbox = [code |-> code, ops |-> code, clock |-> 0,
                    alarm |-> TimeLimit, pending |-> FALSE,
                    status |-> "running", ended |-> 0]
    /\ decls = <<>> /\ frags = <<>>
    /\ pc = "executing"
    /\ EngineIdle
    /\ RegexIdle
    /\ AssembleIdle
    /\ ParallelIdle
    /\ TranslatorIdle
    /\ ExtrasIdle

\* The next operation runs to its end. An alarm that goes off meanwhile is
\* noted; its handler waits for the interpreter to be between two
\* instructions.
ExecuteOperation ==
    /\ mode = "sandbox" /\ sandbox.status = "running"
    /\ sandbox.ops # <<>> /\ ~sandbox.pending
    /\ LET now == sandbox.clock + Head(sandbox.ops)
       IN  sandbox' = [sandbox EXCEPT !.ops = Tail(@), !.clock = now,
                                      !.pending = sandbox.alarm # 0 /\ now >= sandbox.alarm]
    /\ UNCHANGED <<mode, decls, frags, pc, engineVars, regexVars, assembleVars, parallelVars, translatorVars, extraVars>>

\* timeout_handler: between two instructions the handler of the alarm raises
\* TimeoutError; the finally clause turns the alarm off.
RunTimeoutHandler ==
    /\ mode = "sandbox" /\ sandbox.status = "running" /\ sandbox.pending
    /\ sandbox' = [sandbox EXCEPT !.status = "TimeoutError", !.ended = sandbox.clock,
                                  !.pending = FALSE, !.alarm = 0]
    /\ pc' = "executed"
    /\ UNCHANGED <<mode, decls, frags, engineVars, regexVars, assembleVars, parallelVars, translatorVars, extraVars>>

\* The code ends before the alarm; the finally clause turns the alarm off.
ReturnResult ==
    /\ mode = "sandbox" /\ sandbox.status = "running"
    /\ sandbox.ops = <<>> /\ ~sandbox.pending
    /\ sandbox' = [sandbox EXCEPT !.status = "returned", !.ended = sandbox.clock,
                                  !.alarm = 0]
    /\ pc' = "executed"
    /\ UNCHANGED <<mode, decls, frags, engineVars, regexVars, assembleVars, parallelVars, translatorVars, extraVars>>

NextSandbox ==
    \/ ExecuteOperation
    \/ RunTimeoutHandler
    \/ ReturnResult

SpecSandbox == InitSandbox /\ [][NextSandbox]_vars

----------------------------------------------------------------------------
(* The macro translator *)

MaxDepth == 2
MaxMacros == 2

\* A text is a sequence of tokens: the brackets, the separator, the macro
\* names, and words.
Open == "{{"
Close == "}}"
Sep == "::"
Quote == "\""

HasColon(tok) == tok \in {"::", "python:"}
HasBrace(tok) == tok = "}}"

\* The character classes of the patterns: [^:}] for a name, [^}] for a value.
InClass(cls, tok) ==
    IF cls = "name" THEN ~HasColon(tok) /\ ~HasBrace(tok) ELSE ~HasBrace(tok)

\* The conversions table, in its order: the macro and the number of its
\* arguments.
Conversions ==
    << [macro |-> "char", args |-> 0], [macro |-> "user", args |-> 0],
       [macro |-> "time", args |-> 0], [macro |-> "date", args |-> 0],
       [macro |-> "setvar", args |-> 2], [macro |-> "getvar", args |-> 1],
       [macro |-> "setglobalvar", args |-> 2], [macro |-> "getglobalvar", args |-> 1] >>

\* Where the longest run of tokens of the class that starts at i ends: the
\* index of the first token after it.
RECURSIVE RunEnd(_, _, _)
RunEnd(t, i, cls) ==
    IF i > Len(t) \/ ~InClass(cls, t[i]) THEN i ELSE RunEnd(t, i + 1, cls)

NoMatch == [ok |-> FALSE, to |-> 0, g1 |-> <<>>, g2 |-> <<>>]

\* The match of the conversion's pattern at position i of t, if there is one:
\*   {{macro}}   {{macro::([^}]+)}}   {{macro::([^:}]+)::([^}]*)}}
MatchAt(c, t, i) ==
    IF ~(i + 2 <= Len(t) /\ t[i] = Open /\ t[i + 1] = c.macro) THEN NoMatch
    ELSE IF c.args = 0
    THEN IF t[i + 2] = Close
         THEN [ok |-> TRUE, to |-> i + 2, g1 |-> <<>>, g2 |-> <<>>] ELSE NoMatch
    ELSE IF t[i + 2] # Sep THEN NoMatch
    ELSE IF c.args = 1
    THEN LET e == RunEnd(t, i + 3, "value")
         IN  IF e > i + 3 /\ e <= Len(t)
             THEN [ok |-> TRUE, to |-> e, g1 |-> SubSeq(t, i + 3, e - 1), g2 |-> <<>>]
             ELSE NoMatch
    ELSE LET e1 == RunEnd(t, i + 3, "name")
             e2 == RunEnd(t, e1 + 1, "value")
         IN  IF e1 > i + 3 /\ e1 <= Len(t) /\ t[e1] = Sep /\ e2 <= Len(t)
             THEN [ok |-> TRUE, to |-> e2, g1 |-> SubSeq(t, i + 3, e1 - 1),
                   g2 |-> SubSeq(t, e1 + 1, e2 - 1)]
             ELSE NoMatch

\* The replacement: {{python:macro}}, {{python:macro("\1")}},
\* {{python:macro("\1", "\2")}}.
Replacement(c, m) ==
    <<Open, "python:", c.macro>> \o
    (CASE c.args = 0 -> <<>>
       [] c.args = 1 -> <<"(", Quote>> \o m.g1 \o <<Quote, ")">>
       [] c.args = 2 -> <<"(", Quote>> \o m.g1 \o <<Quote, ",", Quote>> \o m.g2 \o <<Quote, ")">>)
    \o <<Close>>

\* re.sub(pattern, replacement, content) from position i on: the matches
\* are taken from left to right, none overlapping another.
RECURSIVE Substitution(_, _, _)
Substitution(c, t, i) ==
    IF i > Len(t) THEN [text |-> <<>>, spans |-> <<>>]
    ELSE LET m == MatchAt(c, t, i)
             rest == Substitution(c, t, IF m.ok THEN m.to + 1 ELSE i + 1)
         IN  IF m.ok
             THEN [text |-> Replacement(c, m) \o rest.text,
                   spans |-> <<[macro |-> c.macro, text |-> t, from |-> i, to |-> m.to]>>
                             \o rest.spans]
             ELSE [text |-> <<t[i]>> \o rest.text, spans |-> rest.spans]

\* The templates the translator is given: up to MaxMacros legacy macros one
\* after the other, each nested up to MaxDepth deep.
RECURSIVE LegacyMacros(_)
LegacyMacros(d) ==
    IF d = 0 THEN {}
    ELSE {<<Open, "char", Close>>}
         \cup {<<Open, "getvar", Sep, n, Close>> : n \in BaseNames}
         \cup {<<Open, "setvar", Sep, n, Sep>> \o v \o <<Close>> :
                  n \in BaseNames, v \in {<<"1">>} \cup LegacyMacros(d - 1)}

RECURSIVE Concat(_)
Concat(ss) == IF ss = <<>> THEN <<>> ELSE Head(ss) \o Concat(Tail(ss))

Templates ==
    UNION {{Concat(ms) : ms \in [1..n -> LegacyMacros(MaxDepth)]} : n \in 1..MaxMacros}

InitTranslator ==
    /\ mode = "translate"
    /\ template \in Templates
    /\ converted = template
    /\ matches = <<>>
    /\ macros = <<>> /\ syntax = "" /\ outcome = <<>>
    /\ decls = <<>> /\ frags = <<>>
    /\ pc = "1"
    /\ EngineIdle
    /\ RegexIdle
    /\ AssembleIdle
    /\ ParallelIdle
    /\ SandboxIdle
    /\ ExtrasIdle

PassNo == [n \in 1..Len(Conversions) + 1 |->
             <<"1", "2", "3", "4", "5", "6", "7", "8", "converted">>[n]]

\* One turn of the loop of convert_tavern_macros_to_python: the next
\* conversion of the table is substituted throughout the text.
ConvertNext ==
    /\ mode \in {"translate", "roundtrip"}
    /\ \E n \in 1..Len(Conversions) :
         /\ pc = PassNo[n]
         /\ LET r == Substitution(Conversions[n], converted, 1)
            IN  /\ converted' = r.text
                /\ matches' = matches \o r.spans
         /\ pc' = PassNo[n + 1]
    /\ UNCHANGED <<mode, decls, frags, template, macros, syntax, outcome,
                   engineVars, regexVars, assembleVars, parallelVars, sandboxVars, extraVars>>

NextTranslator ==
    \/ ConvertNext

SpecTranslator == InitTranslator /\ [][NextTranslator]_vars

----------------------------------------------------------------------------
(* Legacy and native syntax of the same template *)

\* A value that holds a double quote, and the same value as a Python string
\* literal holds it.
Quoted == "say \"hi\""
Escaped == "say \\\"hi\\\""

ContainsQuote(tok) == tok = Quoted
Escape(v) == IF v = Quoted THEN Escaped ELSE v
Unescape(tok) == IF tok = Escaped THEN Quoted ELSE tok

\* The macros a template is written from: a variable read, or a variable
\* set to a value (none, a number, a text that holds a quote).
FlatMacros ==
    [op : {"get"}, name : BaseNames, v : {""}]
        \cup [op : {"set"}, name : BaseNames, v : {"", "1", "5", Quoted}]

ValueTokens(v) == IF v = "" THEN <<>> ELSE <<v>>

\* {{getvar::name}}, {{setvar::name::value}}
LegacyForm(a) ==
    IF a.op = "get" THEN <<Open, "getvar", Sep, a.name, Close>>
    ELSE <<Open, "setvar", Sep, a.name, Sep>> \o ValueTokens(a.v) \o <<Close>>

\* {{python:getvar("name")}}, {{python:setvar("name", "value")}}, the value
\* written as a string literal.
NativeForm(a) ==
    IF a.op = "get" THEN <<Open, "python:", "getvar", "(", Quote, a.name, Quote, ")", Close>>
    ELSE <<Open, "python:", "setvar", "(", Quote, a.name, Quote, ",", Quote>>
            \o ValueTokens(Escape(a.v)) \o <<Quote, ")", Close>>

FormOf(syn, ms) ==
    Concat([k \in 1..Len(ms) |-> IF syn = "legacy" THEN LegacyForm(ms[k])
                                 ELSE NativeForm(ms[k])])

OtherSyntax(syn) == IF syn = "legacy" THEN "native" ELSE "legacy"

\* convert_tavern_macros_to_python: the conversions from the n-th on.
RECURSIVE ConvertFrom(_, _)
ConvertFrom(n, t) ==
    IF n > Len(Conversions) THEN t
    ELSE ConvertFrom(n + 1, Substitution(Conversions[n], t, 1).text)

VarName(fn, n) == IF fn \in {"setglobalvar", "getglobalvar"} THEN <<"global", n>> ELSE <<n>>

\* The code of a Python macro as the sandbox parses it: a call of getvar or
\* setvar on string literals; a string literal ends at the first quote.
ParseCode(code) ==
    IF /\ Len(code) = 6 /\ code[1] \in {"getvar", "getglobalvar"}
       /\ <<code[2], code[3], code[5], code[6]>> = <<"(", Quote, Quote, ")">>
       /\ code[4] \in BaseNames
    THEN Get(VarName(code[1], code[4]))
    ELSE IF /\ Len(code) \in {9, 10} /\ code[1] \in {"setvar", "setglobalvar"}
            /\ <<code[2], code[3], code[5], code[6], code[7]>> = <<"(", Quote, Quote, ",", Quote>>
            /\ code[4] \in BaseNames
            /\ <<code[Len(code) - 1], code[Len(code)]>> = <<Quote, ")">>
            /\ Len(code) = 10 => (code[8] # Quote /\ ~ContainsQuote(code[8]))
    THEN Set(VarName(code[1], code[4]), IF Len(code) = 10 THEN Unescape(code[8]) ELSE "")
    ELSE Err("ParseError")

RECURSIVE FirstClose(_, _)
FirstClose(t, j) ==
    IF j > Len(t) THEN 0 ELSE IF t[j] = Close THEN j ELSE FirstClose(t, j + 1)

\* python_macro_pattern {{python:(.*?)}}: the Python macros of a text and
\* the text between them, from position i on.
RECURSIVE PythonMacros(_, _)
PythonMacros(t, i) ==
    IF i > Len(t) THEN <<>>
    ELSE LET e == FirstClose(t, i + 2)
         IN  IF i + 1 <= Len(t) /\ t[i] = Open /\ t[i + 1] = "python:" /\ e # 0
             THEN <<ParseCode(SubSeq(t, i + 2, e - 1))>> \o PythonMacros(t, e + 1)
             ELSE <<Lit(t[i])>> \o PythonMacros(t, i + 1)

\* What a text gives once converted: the processed text and the store.
Processed(t) ==
    LET r == ProcessPythonMacros(PythonMacros(t, 1), "temp", EmptyScopes)
    IN  [texts |-> r.texts, sc |-> r.sc]

InitRoundTrip ==
    /\ mode = "roundtrip"
    /\ \E n \in 1..MaxMacros : macros \in [1..n -> FlatMacros]
    /\ syntax \in {"legacy", "native"}
    /\ template = FormOf(syntax, macros)
    /\ converted = template
    /\ matches = <<>> /\ outcome = <<>>
    /\ decls = <<>> /\ frags = <<>>
    /\ pc = "1"
    /\ EngineIdle
    /\ RegexIdle
    /\ AssembleIdle
    /\ ParallelIdle
    /\ SandboxIdle
    /\ ExtrasIdle

\* process_python_macros on the converted text.
ProcessConverted ==
    /\ mode = "roundtrip" /\ pc = "converted"
    /\ outcome' = Processed(converted)
    /\ pc' = "processed"
    /\ UNCHANGED <<mode, decls, frags, template, converted, matches, macros, syntax,
                   engineVars, regexVars, assembleVars, parallelVars, sandboxVars, extraVars>>

NextRoundTrip ==
    \/ ConvertNext
    \/ ProcessConverted

SpecRoundTrip == InitRoundTrip /\ [][NextRoundTrip]_vars

----------------------------------------------------------------------------
(* Placing in-chat and relative entries around the chat history *)

MaxEntries == 3
MaxTurns == 2

Positions == {"relative", "in-chat"}

\* The chatHistory placeholder is a relative entry of the preset.
IsChatHistory(e) == e.identifier = "chatHistory"

PlacedEntries ==
    [identifier : {"entry"}, position : Positions, depth : Depths, order : Orders,
     role : {"system"}, decl : {0}]
        \cup [identifier : {"chatHistory"}, position : {"relative"}, depth : {1}, order : Orders,
              role : {"system"}, decl : {0}]

Declared(es) == [k \in 1..Len(es) |-> [es[k] EXCEPT !.decl = k]]

EntryNo(e) == e.decl

IsRelativeEntry(e) == e.position = "relative"

IsInChat(e) == e.position = "in-chat"

\* An ordering of the in-chat entries that puts the larger depth first.
DeeperFirst(a, b) ==
    \/ a.depth > b.depth
    \/ a.depth = b.depth /\ a.order < b.order
    \/ a.depth = b.depth /\ a.order = b.order
         /\ RolePriority(a.role) < RolePriority(b.role)

\* The ordering rules of in-chat entries: the larger depth is further back
\* (closer to the newest message), then the smaller order first, then the
\* role priority.
InChatBefore(a, b) ==
    \/ a.depth < b.depth
    \/ a.depth = b.depth /\ a.order < b.order
    \/ a.depth = b.depth /\ a.order = b.order
         /\ RolePriority(a.role) < RolePriority(b.role)

RECURSIVE InsertInChat(_, _)
InsertInChat(s, x) ==
    IF s = <<>> THEN <<x>>
    ELSE IF InChatBefore(x, Head(s)) THEN <<x>> \o s
    ELSE <<Head(s)>> \o InsertInChat(Tail(s), x)

\* Ties keep the order of the file.
RECURSIVE SortInChat(_)
SortInChat(s) ==
    IF s = <<>> THEN <<>>
    ELSE InsertInChat(SortInChat(SubSeq(s, 1, Len(s) - 1)), s[Len(s)])

TurnItem(k) == [kind |-> "turn", k |-> k]
EntryItem(e) == [kind |-> "entry", k |-> EntryNo(e)]

\* The chat history with the in-chat entries in it: entry k of the sorted
\* in-chat entries stands after turn g[k] (0: before every turn).
RECURSIVE EntriesAt(_, _, _, _)
EntriesAt(inchat, g, slot, k) ==
    IF k > Len(inchat) THEN <<>>
    ELSE (IF g[k] = slot THEN <<EntryItem(inchat[k])>> ELSE <<>>)
            \o EntriesAt(inchat, g, slot, k + 1)

RECURSIVE ChatFrom(_, _, _, _)
ChatFrom(inchat, g, n, slot) ==
    IF slot > n THEN <<>>
    ELSE (IF slot = 0 THEN <<>> ELSE <<TurnItem(slot)>>)
            \o EntriesAt(inchat, g, slot, 1) \o ChatFrom(inchat, g, n, slot + 1)

\* The places that keep the sorted in-chat entries in their order.
Slots(m, n) ==
    {g \in [1..m -> 0..n] : \A k \in 1..m : k < m => g[k] <= g[k + 1]}

\* The relative entries in their order, the chat history in the place of
\* the chatHistory placeholder.
RECURSIVE Joined(_, _)
Joined(sorted, chat) ==
    IF sorted = <<>> THEN <<>>
    ELSE (IF IsChatHistory(Head(sorted)) THEN chat ELSE <<EntryItem(Head(sorted))>>)
            \o Joined(Tail(sorted), chat)

InitPlacement ==
    /\ mode = "place"
    /\ \E n \in 1..MaxEntries : \E es \in [1..n -> PlacedEntries] : \E t \in 0..MaxTurns :
         /\ Cardinality({k \in 1..n : IsChatHistory(es[k])}) = 1
         /\ layout = [entries |-> Declared(es), turns |-> t, relative |-> <<>>,
                      inchat |-> <<>>, chat |-> <<>>, final |-> <<>>]
    /\ decls = <<>> /\ frags = <<>>
    /\ pc = "declared"
    /\ EngineIdle
    /\ RegexIdle
    /\ AssembleIdle
    /\ ParallelIdle
    /\ SandboxIdle
    /\ TranslatorIdle
    /\ CompileIdle
    /\ BotIdle
    /\ ArenaIdle

\* The entries in their orders: the relative ones by the collector's order,
\* the in-chat ones by the in-chat rules.
SortEntries ==
    /\ mode = "place" /\ pc = "declared"
    /\ layout' = [layout EXCEPT !.relative = SortFrags(SelectSeq(layout.entries, IsRelativeEntry)),
                                !.inchat = SortInChat(SelectSeq(layout.entries, IsInChat))]
    /\ pc' = "sorted"
    /\ UNCHANGED <<mode, decls, frags, engineVars, regexVars, assembleVars, parallelVars,
                   sandboxVars, translatorVars, compileVars, botVars, arenaVars>>

\* Depth handling: the in-chat entries go into the chat history, in their
\* order.  The documents give no place in the turns for a depth: any place
\* that keeps the order is possible.
InsertByDepth ==
    /\ mode = "place" /\ pc = "sorted"
    /\ \E g \in Slots(Len(layout.inchat), layout.turns) :
         layout' = [layout EXCEPT !.chat = ChatFrom(layout.inchat, g, layout.turns, 0)]
    /\ pc' = "inserted"
    /\ UNCHANGED <<mode, decls, frags, engineVars, regexVars, assembleVars, parallelVars,
                   sandboxVars, translatorVars, compileVars, botVars, arenaVars>>

\* Relative joining: the relative presets are added around the chat history.
JoinRelative ==
    /\ mode = "place" /\ pc = "inserted"
    /\ layout' = [layout EXCEPT !.final = Joined(layout.relative, layout.chat)]
    /\ pc' = "joined"
    /\ UNCHANGED <<mode, decls, frags, engineVars, regexVars, assembleVars, parallelVars,
                   sandboxVars, translatorVars, compileVars, botVars, arenaVars>>

NextPlacement ==
    \/ SortEntries
    \/ InsertByDepth
    \/ JoinRelative

SpecPlacement == InitPlacement /\ [][NextPlacement]_vars

----------------------------------------------------------------------------
(* Compiling the regex rules of a build *)

\* A pattern that does not compile: an opening parenthesis never closed.
Malformed(find) == find = "("

LoadedRules ==
    {Rule(f, r, {"raw_view", "user_view", "assistant_view"}) :
        f \in {"a", "b", "("}, r \in {"b", "c"}}

Diagnostic(k) == [rule |-> k, error |-> "RegexCompileError"]

\* A rule that fails to compile takes the rules compiled before it with it.
ResetOnError(cs, rule) == IF Malformed(rule.find) THEN <<>> ELSE Append(cs, rule)

\* The compiled rules after one more rule: a rule whose pattern does not
\* compile is left out, for this build.
AfterCompile(cs, rule) == IF Malformed(rule.find) THEN cs ELSE Append(cs, rule)

InitCompile ==
    /\ mode = "compile"
    /\ \E n \in 1..MaxRules : \E rs \in [1..n -> LoadedRules] :
       \E content \in CanonPool : \E o \in {f \in FormatNames : WithRegex(f)} :
         compiling = [loaded |-> rs, content |-> content, format |-> o, next |-> 1,
                      compiled |-> <<>>, diagnostics |-> <<>>, output |-> <<>>]
    /\ decls = <<>> /\ frags = <<>>
    /\ pc = "compiling"
    /\ EngineIdle
    /\ RegexIdle
    /\ AssembleIdle
    /\ ParallelIdle
    /\ SandboxIdle
    /\ TranslatorIdle
    /\ PlacementIdle
    /\ BotIdle
    /\ ArenaIdle

\* The next loaded rule is compiled; a RegexCompileError goes to the
\* diagnostics of the build.
CompileRule ==
    /\ mode = "compile" /\ pc = "compiling"
    /\ compiling.next <= Len(compiling.loaded)
    /\ LET k == compiling.next
           rule == compiling.loaded[k]
       IN  compiling' = [compiling EXCEPT
               !.next = k + 1,
               !.compiled = AfterCompile(compiling.compiled, rule),
               !.diagnostics = IF Malformed(rule.find) THEN Append(@, Diagnostic(k)) ELSE @]
    /\ UNCHANGED <<mode, decls, frags, pc, engineVars, regexVars, assembleVars, parallelVars,
                   sandboxVars, translatorVars, placementVars, botVars, arenaVars>>

\* The format is produced with the compiled rules.
ApplyCompiled ==
    /\ mode = "compile" /\ pc = "compiling"
    /\ compiling.next > Len(compiling.loaded)
    /\ compiling' = [compiling EXCEPT
           !.output = FormatOutput(compiling.format, compiling.content, compiling.compiled)]
    /\ pc' = "applied"
    /\ UNCHANGED <<mode, decls, frags, engineVars, regexVars, assembleVars, parallelVars,
                   sandboxVars, translatorVars, placementVars, botVars, arenaVars>>

NextCompile ==
    \/ CompileRule
    \/ ApplyCompiled

SpecCompile == InitCompile /\ [][NextCompile]_vars

----------------------------------------------------------------------------
(* The Discord bot of the arena *)

MaxBattles == 1
MaxRequests == 2

Users == {"u1", "u2"}

BattleIds == 1..MaxBattles

\* The bots of the repository: the bot of src/bot/src/bot.js, and the bot
\* with sessions (src/unnamed/part_002, second file).
Variants == {"bot", "session"}

Nobody == "nobody"
Absent == "absent"

NoSession == [owner |-> Nobody, status |-> "none", battle |-> 0, revealed |-> FALSE]

\* The branch of the code a message with model names comes from, and whether
\* the battle had been voted on when the message was sent.
Named(b, branch) ==
    [battle |-> b, branch |-> branch, voted |-> bot.status[b] = "completed"]

NextBattle == Cardinality({b \in BattleIds : bot.status[b] # "none"}) + 1

InitBot ==
    /\ mode = "bot"
    /\ \E v \in Variants :
         bot = [variant |-> v,
                status |-> [b \in BattleIds |-> "none"],
                creator |-> [b \in BattleIds |-> Nobody],
                activeBattles |-> [b \in BattleIds |-> Absent],
                timer |-> [b \in BattleIds |-> FALSE],
                requests |-> <<>>,
                names |-> {},
                refused |-> FALSE,
                session |-> NoSession]
    /\ decls = <<>> /\ frags = <<>>
    /\ pc = "ready"
    /\ EngineIdle
    /\ RegexIdle
    /\ AssembleIdle
    /\ ParallelIdle
    /\ SandboxIdle
    /\ TranslatorIdle
    /\ PlacementIdle
    /\ CompileIdle
    /\ ArenaIdle

BotUnchanged ==
    UNCHANGED <<mode, decls, frags, pc, engineVars, regexVars, assembleVars, parallelVars,
                sandboxVars, translatorVars, placementVars, compileVars, arenaVars>>

\* handleCommand, battle: POST /battle creates a battle that waits for its
\* vote; the bot keeps it in activeBattles with the user as authorId, and
\* sends the two answers with the vote buttons.
BattleCommand(u) ==
    /\ mode = "bot" /\ bot.variant = "bot"
    /\ NextBattle \in BattleIds
    /\ LET b == NextBattle
       IN  bot' = [bot EXCEPT !.status[b] = "pending_vote",
                              !.creator[b] = u,
                              !.activeBattles[b] = u]
    /\ BotUnchanged

\* handleCommand, battleinfo: GET /battle/{id}; the battle is put into
\* activeBattles with the user of this command as authorId, to be deleted
\* five minutes later; the model names are part of the message if the status
\* is completed.
BattleInfoCommand(u, b) ==
    /\ mode = "bot"
    /\ bot.status[b] # "none"
    /\ bot' = [bot EXCEPT !.activeBattles[b] = u,
                          !.timer[b] = TRUE,
                          !.names = IF bot.status[b] = "completed"
                                    THEN @ \cup {Named(b, "completed")} ELSE @]
    /\ BotUnchanged

\* The timers set with setTimeout: the battle is deleted from activeBattles.
CacheTimeout(b) ==
    /\ mode = "bot"
    /\ bot.timer[b]
    /\ bot' = [bot EXCEPT !.activeBattles[b] = Absent, !.timer[b] = FALSE]
    /\ BotUnchanged

\* handleVoteButton up to its request: no battle in activeBattles, or a
\* user who is not its authorId, ends the handler with a message; otherwise
\* POST /vote/{battleId} is sent and the handler waits for the answer.
HandleVoteButton(u, b) ==
    /\ mode = "bot" /\ bot.variant = "bot"
    /\ bot.status[b] # "none"
    /\ Len(bot.requests) < MaxRequests
    /\ IF bot.activeBattles[b] = Absent \/ u # bot.activeBattles[b]
       THEN bot' = [bot EXCEPT !.refused = TRUE]
       ELSE bot' = [bot EXCEPT !.requests =
                       Append(@, [battle |-> b, user |-> u, state |-> "sent"])]
    /\ BotUnchanged

\* The answer to POST /vote/{battleId} and the rest of handleVoteButton. The
\* backend takes the vote of a battle that waits for its vote and refuses
\* any other; after a success the bot sets the timer that deletes the battle
\* and edits the message: winner, model names, vote buttons disabled.
VoteResponse(i) ==
    /\ mode = "bot"
    /\ i \in 1..Len(bot.requests)
    /\ bot.requests[i].state = "sent"
    /\ LET b == bot.requests[i].battle
       IN  IF bot.status[b] = "pending_vote"
           THEN bot' = [bot EXCEPT !.status[b] = "completed",
                                   !.requests[i].state = "success",
                                   !.timer[b] = TRUE,
                                   !.names = @ \cup {[battle |-> b, branch |-> "vote_success",
                                                      voted |-> TRUE]}]
           ELSE bot' = [bot EXCEPT !.requests[i].state = "failed"]
    /\ BotUnchanged

\* handleCommand, battle, of the bot with sessions: a session of the user,
\* its status character_selection once the scenes are there.
SessionCommand(u) ==
    /\ mode = "bot" /\ bot.variant = "session"
    /\ bot.session.status = "none"
    /\ bot' = [bot EXCEPT !.session = [owner |-> u, status |-> "character_selection",
                                       battle |-> 0, revealed |-> FALSE]]
    /\ BotUnchanged

\* handleInitialOptionSelectionButton: for the owner of the session, POST
\* /character_selection and POST /battle; the session is ongoing and the
\* answers of the two models are sent with the button that reveals the
\* model names.  Any other user gets a message.
HandleInitialOptionSelectionButton(u) ==
    /\ mode = "bot" /\ bot.variant = "session"
    /\ bot.session.status = "character_selection"
    /\ NextBattle \in BattleIds
    /\ IF u # bot.session.owner
       THEN bot' = [bot EXCEPT !.refused = TRUE]
       ELSE LET b == NextBattle
            IN  bot' = [bot EXCEPT !.status[b] = "pending_vote",
                                   !.creator[b] = u,
                                   !.session.status = "ongoing",
                                   !.session.battle = b]
    /\ BotUnchanged

\* handleRevealModelsButton: for the owner of an ongoing session, POST
\* /reveal and a message with the names of the two models; the session is
\* marked revealed.
HandleRevealModelsButton(u) ==
    /\ mode = "bot" /\ bot.variant = "session"
    /\ bot.session.status = "ongoing"
    /\ ~bot.session.revealed
    /\ IF u # bot.session.owner
       THEN bot' = [bot EXCEPT !.refused = TRUE]
       ELSE bot' = [bot EXCEPT !.names = @ \cup {Named(bot.session.battle, "reveal")},
                               !.session.revealed = TRUE]
    /\ BotUnchanged

NextBot ==
    \/ \E u \in Users : BattleCommand(u)
    \/ \E u \in Users : \E b \in BattleIds : BattleInfoCommand(u, b)
    \/ \E b \in BattleIds : CacheTimeout(b)
    \/ \E u \in Users : \E b \in BattleIds : HandleVoteButton(u, b)
    \/ \E i \in 1..MaxRequests : VoteResponse(i)
    \/ \E u \in Users : SessionCommand(u)
    \/ \E u \in Users : HandleInitialOptionSelectionButton(u)
    \/ \E u \in Users : HandleRevealModelsButton(u)

SpecBot == InitBot /\ [][NextBot]_vars

----------------------------------------------------------------------------
(* The bot with sessions: commands, buttons and their handlers *)

MaxConversations == 5

MaxCommands == 2
MaxHandlers == 2
MaxExtras == 2
MaxClicks == 6
MaxSessions == 2

SessionIds == 1..MaxSessions

MessageIds == 1..MaxCommands

\* A button of a message: its customId is action:sessionId:choice.
Button(a, s, c) == [action |-> a, session |-> s, choice |-> c]

\* A command has no button.
NoButton == Button("battle", 0, "")

Click(u, m, b) == [user |-> u, message |-> m, button |-> b]

NoClick == Click(Nobody, 0, NoButton)

\* The titles of the embeds of the messages.
ReplyTitles == <<"reply_a", "reply_b">>

OptionsTitle(modelType) == IF modelType = "A" THEN "options_a" ELSE "options_b"

NoMessage == [buttons |-> {}, embeds |-> <<>>]

\* The record userSessions.set puts under a user for a session id.
NewSession(s) ==
    [sessionId |-> s, conversationCount |-> 0, status |-> "initializing", revealed |-> FALSE]

NoObject == [sessionId |-> 0, conversationCount |-> 0, status |-> "none", revealed |-> FALSE]

\* The handlers are async functions: between two awaits a handler runs as
\* one step, and while it waits other interactions are handled.
Handler(a, c, u, s, m, p) ==
    [action |-> a, choice |-> c, user |-> u, session |-> s, message |-> m, pc |-> p,
     object |-> 0, fresh |-> 0, edit |-> NoMessage, starter |-> Nobody, current |-> 0]

Handlers == BagToSet(sessionBot.handlers)

Started(sb, hd) == [sb EXCEPT !.handlers = @ (+) SetToBag({hd})]

Ended(sb, hd) == [sb EXCEPT !.handlers = @ (-) SetToBag({hd})]

Continued(sb, hd, next) == Started(Ended(sb, hd), next)

\* userSessions.get(userId): the session object of the user, if any.
UserSession(sb, u) ==
    IF sb.userSessions[u] = 0 THEN NoObject ELSE sb.objects[sb.userSessions[u]]

\* const userId = sessionToUser.get(sessionId);
\* if (!userId || userId !== interaction.user.id) -> refusal
IsSessionUser(sb, u, s) == sb.sessionToUser[s] # Nobody /\ sb.sessionToUser[s] = u

\* The check without the comparison of the session ids.
AnySessionOfUser(sb, u, s, statuses) ==
    /\ sb.userSessions[u] # 0
    /\ UserSession(sb, u).status \in statuses

\* if (!userSession || userSession.sessionId !== sessionId || status is not
\* the one the button needs) -> refusal
IsCurrentSession(sb, u, s, statuses) ==
    /\ sb.userSessions[u] # 0
    /\ UserSession(sb, u).sessionId = s
    /\ UserSession(sb, u).status \in statuses

\* The status a button needs; continue_battle needs none.
StatusFor(a) ==
    CASE a \in {"select_initial_option", "select_character"} -> {"character_selection"}
      [] a \in {"select_option", "reveal_models"} -> {"ongoing"}
      [] OTHER -> {"initializing", "character_selection", "ongoing"}

PassesChecks(sb, u, s, a) ==
    IsSessionUser(sb, u, s) /\ IsCurrentSession(sb, u, s, StatusFor(a))

\* The handler with what it found at its checks.
Checked(sb, hd) ==
    [hd EXCEPT !.object = sb.userSessions[hd.user],
               !.starter = sb.startedBy[hd.session],
               !.current = UserSession(sb, hd.user).sessionId]

\* handleOptionSelectionButton, the button of an option of model A or B: the
\* text of the option is a field of the third or fourth embed of the message
\* of the button or, with two embeds or fewer, of its embed with the title of
\* the options of that model; "" when there is none.
OptionsEmbed(embeds, modelType) ==
    IF Len(embeds) > 2
    THEN IF Len(embeds) >= (IF modelType = "A" THEN 3 ELSE 4)
         THEN embeds[IF modelType = "A" THEN 3 ELSE 4] ELSE ""
    ELSE IF \E i \in 1..Len(embeds) : embeds[i] = OptionsTitle(modelType)
         THEN OptionsTitle(modelType) ELSE ""

\* POST /battle with the chosen option as input, under the session id of
\* the handler, for the session object the handler holds.
SendTurn(sb, hd) ==
    [sb EXCEPT !.latest[hd.user] = hd.session,
               !.lateTurn = @ \/ sb.objects[hd.object].conversationCount >= MaxConversations,
               !.turnAfterReveal = @ \/ hd.session \in sb.revealedIds]

InitSessionBot ==
    /\ mode = "session"
    /\ sessionBot = [objects |-> <<>>,
                     userSessions |-> [u \in Users |-> 0],
                     sessionToUser |-> [s \in SessionIds |-> Nobody],
                     handlers |-> EmptyBag,
                     messages |-> [m \in MessageIds |-> NoMessage],
                     commands |-> 0,
                     extras |-> 0,
                     burst |-> NoClick,
                     issued |-> 0,
                     latest |-> [u \in Users |-> 0],
                     startedBy |-> [s \in SessionIds |-> Nobody],
                     selections |-> [s \in SessionIds |-> 0],
                     revealedIds |-> {},
                     declined |-> {},
                     refused |-> FALSE,
                     lateTurn |-> FALSE,
                     turnAfterReveal |-> FALSE]
    /\ battleCache = <<>> /\ access = <<>> /\ embed = <<>>
    /\ decls = <<>> /\ frags = <<>>
    /\ pc = "ready"
    /\ EngineIdle
    /\ RegexIdle
    /\ AssembleIdle
    /\ ParallelIdle
    /\ SandboxIdle
    /\ TranslatorIdle
    /\ PlacementIdle
    /\ CompileIdle
    /\ BotIdle

\* The handlers that run are all of clicks of one button by one user.
SameClick(u, m, b) ==
    \A hd \in Handlers :
        /\ hd.user = u /\ hd.message = m
        /\ hd.action = b.action /\ hd.session = b.session /\ hd.choice = b.choice

\* What is explored beyond interactions handled one after the other, at
\* the cost of MaxExtras extras in all: a handler started while a handler of
\* another interaction runs (fewer than MaxHandlers of them) costs one;
\* clicks of one button while the handlers of its earlier clicks run
\* (MaxClicks of them) cost one together; a command after the first costs
\* them all.
Extra(u, m, b) ==
    IF b = NoButton /\ sessionBot.commands > 0 THEN MaxExtras
    ELSE IF sessionBot.handlers = EmptyBag THEN 0
    ELSE IF SameClick(u, m, b) /\ sessionBot.burst = Click(u, m, b) THEN 0 ELSE 1

CanHandle(u, m, b) ==
    /\ sessionBot.extras + Extra(u, m, b) <= MaxExtras
    /\ IF sessionBot.handlers # EmptyBag /\ SameClick(u, m, b)
       THEN BagCardinality(sessionBot.handlers) < MaxClicks
       ELSE BagCardinality(sessionBot.handlers) < MaxHandlers

Handled(sb, u, m, b) ==
    [sb EXCEPT !.extras = @ + Extra(u, m, b),
               !.burst = IF sb.handlers # EmptyBag /\ SameClick(u, m, b) THEN Click(u, m, b) ELSE @]

SessionUnchanged ==
    UNCHANGED <<mode, decls, frags, pc, engineVars, regexVars, assembleVars, parallelVars,
                sandboxVars, translatorVars, placementVars, compileVars, botVars,
                battleCache, access, embed>>

\* handleCommand, battle, up to its first request: the waiting message is
\* sent and POST /sessions/latest asks for the latest session of the user.
SessionBattleCommand(u) ==
    /\ mode = "session"
    /\ sessionBot.commands < MaxCommands
    /\ CanHandle(u, 0, NoButton)
    /\ sessionBot' = [Started(Handled(sessionBot, u, 0, NoButton),
                              Handler("battle", "", u, 0, sessionBot.commands + 1, "latest"))
                      EXCEPT !.commands = @ + 1]
    /\ SessionUnchanged

\* The answer to POST /sessions/latest: a session with fewer than five turns
\* is used again, any other answer (no session, five turns, an error) gives
\* crypto.randomUUID(); userSessions.set with a new object, sessionToUser.set,
\* and POST /battle with input null is sent. The backend counts the turns.
LatestSessionResponse(hd, reuse) ==
    /\ mode = "session"
    /\ hd \in Handlers
    /\ hd.pc = "latest"
    /\ LET sb == sessionBot
           u == hd.user
       IN  /\ IF reuse THEN sb.latest[u] # 0 ELSE sb.issued < MaxSessions
           /\ LET s == IF reuse THEN sb.latest[u] ELSE sb.issued + 1
              IN  sessionBot' = [Continued(sb, hd, [hd EXCEPT !.session = s, !.pc = "scenes"])
                      EXCEPT
                      !.issued = IF reuse THEN @ ELSE s,
                      !.startedBy[s] = IF reuse THEN @ ELSE u,
                      !.objects = Append(@, NewSession(s)),
                      !.userSessions[u] = Len(sb.objects) + 1,
                      !.sessionToUser[s] = u,
                      !.latest[u] = s]
    /\ SessionUnchanged

\* The answer to POST /battle with input null, for handleCommand and for
\* handleContinueBattleButton: the session of the user goes to
\* character_selection and the scenes are sent with their buttons
\* (select_initial_option for scenes with options, select_character for
\* those without; select_character after continue_battle).
ScenesResponse(hd, a) ==
    /\ mode = "session"
    /\ hd \in Handlers
    /\ hd.pc = "scenes"
    /\ LET sb == sessionBot
           s == IF hd.action = "continue_battle" THEN hd.fresh ELSE hd.session
       IN  /\ hd.action = "continue_battle" => a = "select_character"
           /\ sb.userSessions[hd.user] # 0
           /\ sessionBot' = [Ended(sb, hd) EXCEPT
                  !.objects[sb.userSessions[hd.user]].status = "character_selection",
                  !.messages[hd.message] = [buttons |-> {Button(a, s, "0")}, embeds |-> <<"scenes">>]]
    /\ SessionUnchanged

\* A request of a handler fails, or POST /battle gives no scenes: the
\* handler sends a message and ends.
RequestFails(hd) ==
    /\ mode = "session"
    /\ hd \in Handlers
    /\ hd.pc \in {"scenes", "char_sel", "battle", "reveal"}
    /\ sessionBot' = Ended(sessionBot, hd)
    /\ SessionUnchanged

\* handleInitialOptionSelectionButton up to its first await: the checks, and
\* interaction.update that shows the choice and takes the buttons away.
HandleInitialOptionSelection(u, m, b) ==
    /\ mode = "session"
    /\ b \in sessionBot.messages[m].buttons
    /\ b.action = "select_initial_option"
    /\ CanHandle(u, m, b)
    /\ LET sb == Handled(sessionBot, u, m, b)
       IN  IF PassesChecks(sb, u, b.session, b.action)
           THEN sessionBot' =
                    Started(sb, Checked(sb, Handler(b.action, b.choice, u, b.session, m, "confirm")))
           ELSE sessionBot' = [sb EXCEPT !.refused = TRUE]
    /\ SessionUnchanged

\* handleButton for the other session buttons: interaction.deferUpdate() is
\* awaited before the checks.
HandleButton(u, m, b) ==
    /\ mode = "session"
    /\ b \in sessionBot.messages[m].buttons
    /\ b.action # "select_initial_option"
    /\ CanHandle(u, m, b)
    /\ sessionBot' = Started(Handled(sessionBot, u, m, b),
                             Handler(b.action, b.choice, u, b.session, m, "defer"))
    /\ SessionUnchanged

\* The checks of a handler after deferUpdate: a refusal, or the handler goes
\* on with what it found.
CheckSession(hd) ==
    /\ mode = "session"
    /\ hd \in Handlers
    /\ hd.pc = "defer"
    /\ LET sb == sessionBot
       IN  IF PassesChecks(sb, hd.user, hd.session, hd.action)
           THEN sessionBot' = Continued(sb, hd, [Checked(sb, hd) EXCEPT !.pc = "checked"])
           ELSE sessionBot' = [Ended(sb, hd) EXCEPT !.refused = TRUE]
    /\ SessionUnchanged

\* handleCharacterSelectionButton after its checks (no await in between):
\* POST /character_selection.
SelectCharacter(hd) ==
    /\ mode = "session"
    /\ hd \in Handlers
    /\ hd.pc = "checked" /\ hd.action = "select_character"
    /\ sessionBot' = [Continued(sessionBot, hd, [hd EXCEPT !.pc = "char_sel"])
                      EXCEPT !.selections[hd.session] = IF @ < 2 THEN @ + 1 ELSE @]
    /\ SessionUnchanged

\* handleOptionSelectionButton after its checks: the text of the option is
\* looked up (for a button of the scene chosen with select_character it is
\* the first option of the scene of that index, if the scene has one);
\* without a text the handler ends with a message, with it editReply takes
\* the buttons away.
SelectOption(hd, found) ==
    /\ mode = "session"
    /\ hd \in Handlers
    /\ hd.pc = "checked" /\ hd.action = "select_option"
    /\ LET modelType == IF hd.choice \in {"A0", "B0"} THEN (IF hd.choice = "A0" THEN "A" ELSE "B")
                        ELSE ""
           selectedOption ==
               IF modelType # ""
               THEN OptionsEmbed(sessionBot.messages[hd.message].embeds, modelType)
               ELSE IF found THEN "option" ELSE ""
       IN  IF selectedOption = ""
           THEN sessionBot' = Ended(sessionBot, hd)
           ELSE sessionBot' = Continued(sessionBot, hd, [hd EXCEPT !.pc = "processing"])
    /\ SessionUnchanged

\* handleRevealModelsButton after its checks: POST /reveal for the choice
\* true; for the choice false an editReply, and at the maximum of turns the
\* forced reveal.
RevealModels(hd) ==
    /\ mode = "session"
    /\ hd \in Handlers
    /\ hd.pc = "checked" /\ hd.action = "reveal_models"
    /\ LET sb == sessionBot
           held == sb.objects[hd.object]
           options == {b \in sb.messages[hd.message].buttons : b.action = "select_option"}
       IN  sessionBot' = Continued(sb, hd,
               IF hd.choice = "true"
               THEN [hd EXCEPT !.pc = "reveal"]
               ELSE IF held.conversationCount >= MaxConversations
                    THEN [hd EXCEPT !.pc = "forced"]
                    ELSE [hd EXCEPT !.pc = "edit",
                                    !.edit = [buttons |-> options,
                                              embeds |-> sb.messages[hd.message].embeds]])
    /\ SessionUnchanged

\* handleContinueBattleButton after its checks: at the maximum of turns or
\* after a reveal a new session id and a new session object, and an
\* editReply; otherwise the message keeps its option buttons.
ContinueBattle(hd) ==
    /\ mode = "session"
    /\ hd \in Handlers
    /\ hd.pc = "checked" /\ hd.action = "continue_battle"
    /\ LET sb == sessionBot
           u == hd.user
           held == sb.objects[hd.object]
           options == {b \in sb.messages[hd.message].buttons : b.action = "select_option"}
       IN  IF held.conversationCount >= MaxConversations \/ held.revealed
           THEN /\ sb.issued < MaxSessions
                /\ LET n == sb.issued + 1
                   IN  sessionBot' = [Continued(sb, hd, [hd EXCEPT !.pc = "creating", !.fresh = n])
                           EXCEPT
                           !.issued = n,
                           !.startedBy[n] = u,
                           !.objects = Append(@, NewSession(n)),
                           !.userSessions[u] = Len(sb.objects) + 1,
                           !.sessionToUser[n] = u]
           ELSE sessionBot' = Continued(sb, hd,
                    [hd EXCEPT !.pc = "edit",
                               !.edit = [buttons |-> options,
                                         embeds |-> sb.messages[hd.message].embeds]])
    /\ SessionUnchanged

\* handleInitialOptionSelectionButton after interaction.update and the
\* followUp: POST /character_selection is sent.
SendCharacterSelection(hd) ==
    /\ mode = "session"
    /\ hd \in Handlers
    /\ hd.pc = "confirm"
    /\ sessionBot' = [Continued(sessionBot, hd, [hd EXCEPT !.pc = "char_sel"]) EXCEPT
           !.messages[hd.message] = NoMessage,
           !.selections[hd.session] = IF @ < 2 THEN @ + 1 ELSE @]
    /\ SessionUnchanged

\* The answer to POST /character_selection: the session object the handler
\* holds goes to ongoing and is set as the session of the user; then POST
\* /battle with the chosen option (handleInitialOptionSelectionButton), or
\* the message with the option buttons of the scene, which Discord takes
\* only if the scene has options (handleCharacterSelectionButton).
CharacterSelectionResponse(hd, options) ==
    /\ mode = "session"
    /\ hd \in Handlers
    /\ hd.pc = "char_sel"
    /\ LET sb == [sessionBot EXCEPT !.objects[hd.object].status = "ongoing",
                                    !.userSessions[hd.user] = hd.object]
       IN  IF hd.action = "select_initial_option"
           THEN /\ options
                /\ sessionBot' = Continued(SendTurn(sb, hd), hd, [hd EXCEPT !.pc = "battle"])
           ELSE IF options
                THEN sessionBot' = Continued(sb, hd,
                         [hd EXCEPT !.pc = "edit",
                                    !.edit = [buttons |-> {Button("select_option", hd.session, "0")},
                                              embeds |-> <<"scene">>]])
                ELSE sessionBot' = Ended(sb, hd)
    /\ SessionUnchanged

\* handleOptionSelectionButton after its editReply: the buttons are gone and
\* POST /battle with the chosen option is sent.
SendBattle(hd) ==
    /\ mode = "session"
    /\ hd \in Handlers
    /\ hd.pc = "processing"
    /\ sessionBot' = [Continued(SendTurn(sessionBot, hd), hd, [hd EXCEPT !.pc = "battle"]) EXCEPT
           !.messages[hd.message] = NoMessage]
    /\ SessionUnchanged

\* The answer to POST /battle with an input: conversationCount += 1, and the
\* answers of the two models are sent in two embeds, with the option buttons
\* and the buttons of the last row.
BattleResponse(hd) ==
    /\ mode = "session"
    /\ hd \in Handlers
    /\ hd.pc = "battle"
    /\ LET s == hd.session
           last == IF hd.action = "select_initial_option"
                   THEN {Button("reveal_models", s, "true"), Button("continue_battle", s, "new")}
                   ELSE {Button("reveal_models", s, "true"), Button("reveal_models", s, "false")}
           shown == [buttons |-> {Button("select_option", s, "A0"),
                                  Button("select_option", s, "B0")} \cup last,
                     embeds |-> ReplyTitles]
       IN  sessionBot' = [Continued(sessionBot, hd, [hd EXCEPT !.pc = "edit", !.edit = shown])
               EXCEPT
               !.objects[hd.object].conversationCount = @ + 1,
               !.userSessions[hd.user] = hd.object]
    /\ SessionUnchanged

\* The answer to POST /reveal: the names of the two models are sent, the
\* session is marked revealed, and the button continue_battle follows.
RevealResponse(hd) ==
    /\ mode = "session"
    /\ hd \in Handlers
    /\ hd.pc = "reveal"
    /\ sessionBot' = [Continued(sessionBot, hd,
                          [hd EXCEPT !.pc = "edit",
                                     !.edit = [buttons |-> {Button("continue_battle", hd.session, "new")},
                                               embeds |-> <<"models">>]])
           EXCEPT
           !.objects[hd.object].revealed = TRUE,
           !.userSessions[hd.user] = hd.object,
           !.revealedIds = @ \cup {hd.session}]
    /\ SessionUnchanged

\* handleRevealModelsButton, choice false at the maximum: after its
\* editReply it calls itself with 'true'. The call starts with
\* interaction.deferUpdate() on an interaction that is deferred and replied
\* already, which discord.js rejects (InteractionAlreadyReplied); the
\* rejection is caught by the outer handler, which sends the failure message.
ForcedReveal(hd) ==
    /\ mode = "session"
    /\ hd \in Handlers
    /\ hd.pc = "forced"
    /\ sessionBot' = [Ended(sessionBot, hd) EXCEPT
           !.messages[hd.message] = NoMessage,
           !.declined = @ \cup {hd.session}]
    /\ SessionUnchanged

\* handleContinueBattleButton after its editReply: POST /battle with input
\* null under the new session id.
CreateSession(hd) ==
    /\ mode = "session"
    /\ hd \in Handlers
    /\ hd.pc = "creating"
    /\ sessionBot' = [Continued(sessionBot, hd, [hd EXCEPT !.pc = "scenes"]) EXCEPT
           !.messages[hd.message] = NoMessage,
           !.latest[hd.user] = hd.fresh]
    /\ SessionUnchanged

\* The last editReply of a handler arrives: the message shows its buttons.
EditDelivered(hd) ==
    /\ mode = "session"
    /\ hd \in Handlers
    /\ hd.pc = "edit"
    /\ sessionBot' = [Ended(sessionBot, hd) EXCEPT !.messages[hd.message] = hd.edit]
    /\ SessionUnchanged

Buttons == UNION {sessionBot.messages[m].buttons : m \in MessageIds}

NextSessionBot ==
    \/ \E u \in Users : SessionBattleCommand(u)
    \/ \E hd \in Handlers : \E reuse \in BOOLEAN : LatestSessionResponse(hd, reuse)
    \/ \E hd \in Handlers : \E a \in {"select_initial_option", "select_character"} :
          ScenesResponse(hd, a)
    \/ \E hd \in Handlers : RequestFails(hd)
    \/ \E u \in Users : \E m \in MessageIds : \E b \in Buttons :
          HandleInitialOptionSelection(u, m, b)
    \/ \E u \in Users : \E m \in MessageIds : \E b \in Buttons : HandleButton(u, m, b)
    \/ \E hd \in Handlers : CheckSession(hd)
    \/ \E hd \in Handlers : SelectCharacter(hd)
    \/ \E hd \in Handlers : \E found \in BOOLEAN : SelectOption(hd, found)
    \/ \E hd \in Handlers : RevealModels(hd)
    \/ \E hd \in Handlers : ContinueBattle(hd)
    \/ \E hd \in Handlers : SendCharacterSelection(hd)
    \/ \E hd \in Handlers : \E options \in BOOLEAN : CharacterSelectionResponse(hd, options)
    \/ \E hd \in Handlers : SendBattle(hd)
    \/ \E hd \in Handlers : BattleResponse(hd)
    \/ \E hd \in Handlers : RevealResponse(hd)
    \/ \E hd \in Handlers : ForcedReveal(hd)
    \/ \E hd \in Handlers : CreateSession(hd)
    \/ \E hd \in Handlers : EditDelivered(hd)

SpecSessionBot == InitSessionBot /\ [][NextSessionBot]_vars

----------------------------------------------------------------------------
(* An execution that exceeds the time limit *)

\* C21: an execution that needs more than the time limit is aborted by the
\* deadline: it ends with TimeoutError no later than TimeLimit + Epsilon
\* seconds after its start, and while it runs it is never past that moment.
C21_TimeoutWithinBudget ==
    (mode = "sandbox" /\ Work(sandbox.code) > TimeLimit) =>
        /\ sandbox.clock <= TimeLimit + Epsilon
        /\ sandbox.status # "running" =>
              /\ sandbox.status = "TimeoutError"
              /\ sandbox.ended <= TimeLimit + Epsilon

\* What the alarm does give: an execution that needs more than the time
\* limit never returns a result, it ends with TimeoutError, at the end of
\* the operation during which the alarm went off.
C21_TimeoutAtOperationEnd ==
    (mode = "sandbox" /\ Work(sandbox.code) > TimeLimit /\ sandbox.status # "running") =>
        /\ sandbox.status = "TimeoutError"
        /\ sandbox.ended >= TimeLimit

----------------------------------------------------------------------------
(* Lifetime of the scopes *)

WritesOfBuild(s, k) ==
    {p \in 1..Len(writes) : writes[p].scope = s /\ writes[p].key = k}

\* C22: the temporary scope is reset at every build: every build, the
\* earlier ones included, found it empty, so that nothing written to it in
\* one build is read in a later one. In the other scopes a value stays for
\* the rest of the build it was written in: the store holds the last value
\* the build wrote, or the value the build started with.
C22_EphemeralResetOthersPersist ==
    mode = "build" =>
        /\ \A k \in BaseNames :
             /\ start["temp"][k] = Unset
             /\ \A p \in 1..Len(prev) : prev[p].start["temp"][k] = Unset
        /\ \A s \in Scopes \ {"temp"}, k \in BaseNames :
             scopes[s][k] = IF WritesOfBuild(s, k) = {} THEN start[s][k]
                            ELSE writes[Max(WritesOfBuild(s, k))].v

\* The second build of an entry that reads the temporary x and then writes
\* it: the read found nothing, though the first build had left its value,
\* while the preset scope holds what an entry of this build wrote.
C22_Witness ==
    /\ mode = "build" /\ build = 2 /\ pc = "done"
    /\ \E k \in 1..Len(out) :
         out[k].id = "scratch" /\ out[k].expanded /\ out[k].texts[1] = Unset
    /\ scopes["temp"]["x"] = "1"
    /\ scopes["preset"]["level"] = "5"

----------------------------------------------------------------------------
(* A failing enabled expression *)

FailedEvals == {n \in 1..Len(evals) : evals[n].error # ""}

\* C23: when the evaluation of an entry's enabled expression fails, the
\* entry counts as disabled: its code_block and content do not run and it
\* gives no part; the error is on record with its kind; and the build is
\* not interrupted: the loop moves on to the next entry, and at the end of
\* the build every entry has been through its activation.
C23_FailedEnabledDisables ==
    mode = "build" =>
        /\ \A n \in FailedEvals :
             LET i == evals[n].f
             IN  /\ ~evals[n].result
                 /\ evals[n].error \in ErrorKinds
                 /\ activation[i] = "disabled"
                 /\ StepsRun(i) = {"enabled"}
                 /\ \A k \in 1..Len(out) : out[k].f # i
                 /\ evals[n].at = Len(trace) =>
                       /\ idx = i + 1
                       /\ pc = IF i < Len(frags) THEN "enabled" ELSE "done"
        /\ pc = "done" => \A i \in 1..Len(frags) : activation[i] # "pending"

\* A finished build in which the enabled expression of an entry that has a
\* code_block failed, and an entry after it was expanded.
C23_Witness ==
    /\ mode = "build" /\ pc = "done"
    /\ \E n \in FailedEvals :
         /\ frags[evals[n].f].code.op = "set"
         /\ \E k \in 1..Len(out) : out[k].f > evals[n].f /\ out[k].expanded

----------------------------------------------------------------------------
(* Nested macros *)

\* The closing bracket pair of the opening pair at i, by depth: the first
\* one after as many closing pairs as opening pairs in between (0 if none).
RECURSIVE ClosingFrom(_, _, _)
ClosingFrom(t, j, depth) ==
    IF j > Len(t) THEN 0
    ELSE IF t[j] = Open THEN ClosingFrom(t, j + 1, depth + 1)
    ELSE IF t[j] = Close
    THEN IF depth = 1 THEN j ELSE ClosingFrom(t, j + 1, depth - 1)
    ELSE ClosingFrom(t, j + 1, depth)

ClosingOf(t, i) == ClosingFrom(t, i + 1, 1)

\* C24: whatever the nesting depth of the legacy macros, every macro the
\* translator converts runs from its opening bracket pair to the closing
\* pair that belongs to it by depth: no opening pair is matched with the
\* closing pair of another macro.
C24_NoMispairing ==
    mode = "translate" =>
        \A k \in 1..Len(matches) :
            matches[k].to = ClosingOf(matches[k].text, matches[k].from)

\* What the table does give: a macro that holds no macro is converted from
\* its own opening pair to its own closing pair.
C24_FlatMacrosPaired ==
    mode = "translate" =>
        \A k \in 1..Len(matches) :
            LET m == matches[k]
            IN  (\A j \in (m.from + 1)..(ClosingOf(m.text, m.from) - 1) : m.text[j] # Open)
                    => m.to = ClosingOf(m.text, m.from)

----------------------------------------------------------------------------
(* Round trip of the two syntaxes *)

\* C25: a template of variable reads and variable sets written in the
\* legacy syntax and the same template written in the native syntax give
\* the same processed text and the same store.
C25_LegacyEqualsNative ==
    (mode = "roundtrip" /\ pc = "processed") =>
        outcome = Processed(ConvertFrom(1, FormOf(OtherSyntax(syntax), macros)))

\* What the conversions do give: the two syntaxes agree on every template
\* whose values hold no double quote.
C25_PlainValuesRoundTrip ==
    (mode = "roundtrip" /\ pc = "processed"
        /\ \A k \in 1..Len(macros) : ~ContainsQuote(macros[k].v)) =>
        outcome = Processed(ConvertFrom(1, FormOf(OtherSyntax(syntax), macros)))

----------------------------------------------------------------------------
(* Depth of in-chat entries, position of relative entries *)

PlacedDone == mode = "place" /\ pc = "joined"

InChatNos == {k \in 1..Len(layout.entries) : IsInChat(layout.entries[k])}

RelativeNos ==
    {k \in 1..Len(layout.entries) :
        IsRelativeEntry(layout.entries[k]) /\ ~IsChatHistory(layout.entries[k])}

\* Where entry k stands in the final list.
FinalIndex(k) ==
    CHOOSE i \in 1..Len(layout.final) : layout.final[i] = [kind |-> "entry", k |-> k]

TurnsAfter(k) ==
    Cardinality({i \in 1..Len(layout.final) :
                    i > FinalIndex(k) /\ layout.final[i].kind = "turn"})

\* The places of the final list the chat history takes: the turns and the
\* in-chat entries.
ChatIndexes ==
    {i \in 1..Len(layout.final) :
        layout.final[i].kind = "turn" \/ layout.final[i].k \in InChatNos}

IsRelativeItem(x) == x.kind = "entry" /\ x.k \in RelativeNos

\* The relative entries stand in the collector's order, whatever the
\* conversation is, and none of them stands inside the chat history.
RelativeAtCollectorPosition ==
    /\ SelectSeq(layout.final, IsRelativeItem)
         = SelectSeq([k \in 1..Len(layout.relative) |->
                         [kind |-> "entry", k |-> layout.relative[k].decl]], IsRelativeItem)
    /\ \A k \in RelativeNos : TurnsAfter(k) \in {0, layout.turns}

\* C26 (as claimed): an in-chat entry stands depth turns back from the most
\* recent turn (before every turn when there are fewer), and a relative
\* entry stands at its collector-given position whatever the length of the
\* conversation.
C26_BackwardByDepth ==
    PlacedDone =>
        /\ \A k \in InChatNos :
             TurnsAfter(k) = IF layout.entries[k].depth <= layout.turns
                             THEN layout.entries[k].depth ELSE layout.turns
        /\ RelativeAtCollectorPosition

\* C26 (amended): an in-chat entry stands inside the chat history, and of
\* two in-chat entries the one of the larger depth stands closer to the most
\* recent turn; a relative entry stands at its collector-given position
\* whatever the length of the conversation.
C26_DeeperCloserToRecent ==
    PlacedDone =>
        /\ \A i \in InChatNos : \A j \in InChatNos :
             layout.entries[i].depth < layout.entries[j].depth
                 => /\ FinalIndex(i) < FinalIndex(j)
                    /\ TurnsAfter(i) >= TurnsAfter(j)
        /\ \A k \in RelativeNos : \A a \in ChatIndexes : \A b \in ChatIndexes :
             (FinalIndex(k) < a) = (FinalIndex(k) < b)
        /\ RelativeAtCollectorPosition

\* Two in-chat entries, the deeper one declared first, in a conversation of
\* two turns, and a relative entry next to the chat history.
C26_Witness ==
    /\ PlacedDone
    /\ layout.turns = 2
    /\ \E i \in InChatNos : \E j \in InChatNos :
         /\ i < j /\ layout.entries[i].depth = 2 /\ layout.entries[j].depth = 1
         /\ layout.entries[i].order = layout.entries[j].order
         /\ TurnsAfter(i) = 0 /\ TurnsAfter(j) = 1

\* No placing of two in-chat entries of depths 1 and 2 in a conversation of
\* two turns has both of them depth turns back from the most recent turn.
C26_NoPlaceBackwardByDepth ==
    (PlacedDone /\ layout.turns = 2) =>
        \A i \in InChatNos : \A j \in InChatNos :
            (layout.entries[i].depth = 1 /\ layout.entries[j].depth = 2)
                => ~(TurnsAfter(i) = 1 /\ TurnsAfter(j) = 2)

----------------------------------------------------------------------------
(* A rule whose pattern does not compile *)

WellFormed(rule) == ~Malformed(rule.find)

MalformedNos == {k \in 1..Len(compiling.loaded) : Malformed(compiling.loaded[k].find)}

OutputTexts(msgs) ==
    UNION {{msgs[k].parts[m].text : m \in 1..Len(msgs[k].parts)} : k \in 1..Len(msgs)}

HoldsError(text) ==
    \E i \in 1..Len(text) : text[i] \in {"RegexCompileError", "("}

\* C27: a RegexCompileError disables only the rule whose pattern is
\* malformed, for the build: the other rules are applied as if that rule
\* were absent, the error is in the diagnostics of the build, and no text of
\* the output holds it.
C27_MalformedRuleAloneDisabled ==
    (mode = "compile" /\ pc = "applied") =>
        /\ compiling.output
             = FormatOutput(compiling.format, compiling.content,
                            SelectSeq(compiling.loaded, WellFormed))
        /\ {compiling.diagnostics[i].rule : i \in 1..Len(compiling.diagnostics)} = MalformedNos
        /\ \A i \in 1..Len(compiling.diagnostics) :
             compiling.diagnostics[i].error = "RegexCompileError"
        /\ \A text \in OutputTexts(compiling.output) : ~HoldsError(text)

\* A malformed rule after a rule that changes the output.
C27_Witness ==
    /\ mode = "compile" /\ pc = "applied"
    /\ \E k \in MalformedNos : k > 1
    /\ compiling.diagnostics # <<>>
    /\ compiling.output
         # FormatOutput(compiling.format, compiling.content, <<>>)

----------------------------------------------------------------------------
(* Blind test, votes of the creator, one vote request *)

\* C28: the model names of a battle are put into a message only after a
\* successful answer to the vote or for a battle whose status is completed:
\* never for a battle that has not been voted on.
C28_NamesOnlyAfterVote ==
    mode = "bot" =>
        \A n \in bot.names : n.voted /\ n.branch \in {"vote_success", "completed"}

\* The bot of src/bot/src/bot.js alone names the models of voted battles
\* only.
C28_BotJsNamesAfterVote ==
    (mode = "bot" /\ bot.variant = "bot") => \A n \in bot.names : n.voted

C30_OneVoteRequestPerBattle ==
    mode = "bot" =>
        \A b \in BattleIds :
            Cardinality({i \in 1..Len(bot.requests) : bot.requests[i].battle = b}) <= 1

\* The backend takes one vote for a battle, whatever the bot sends.
C30_OneVoteSucceeds ==
    mode = "bot" =>
        \A b \in BattleIds :
            Cardinality({i \in 1..Len(bot.requests) :
                            bot.requests[i].battle = b /\ bot.requests[i].state = "success"}) <= 1

----------------------------------------------------------------------------
(* The buttons of a session *)

SessionButtons ==
    {"select_character", "select_initial_option", "select_option", "reveal_models",
     "continue_battle"}

\* The handlers of session buttons that are past their checks: they send the
\* requests and change the sessions.
PastChecks == {hd \in Handlers : hd.action \in SessionButtons /\ hd.pc # "defer"}

C32_AtMostFiveTurns ==
    /\ \A i \in 1..Len(sessionBot.objects) :
          /\ 0 <= sessionBot.objects[i].conversationCount
          /\ sessionBot.objects[i].conversationCount <= MaxConversations
    /\ ~sessionBot.lateTurn

\* C33: no turn is sent under a session id after the model names of that
\* session have been revealed.
C33_NoTurnAfterReveal == ~sessionBot.turnAfterReveal

\* C34: a session whose owner chose not to reveal at the maximum of turns
\* has had its model names revealed when the handler of that click has ended.
C34_ForcedReveal == sessionBot.declined \subseteq sessionBot.revealedIds

\* C35: at most one POST /character_selection is sent for a session.
C35_OneCharacterSelection == \A s \in SessionIds : sessionBot.selections[s] <= 1

----------------------------------------------------------------------------
(* The cache of battles and its timers *)

\* setTimeout(..., 5 * 60 * 1000): the minutes a timer of the cache runs.
CacheMinutes == 5

MaxTimers == 2

\* The bot of src/bot/src/bot.js, and the bot with tiers (src/unnamed/part_002,
\* first file), which has /battleback and whose vote goes on without the
\* battle in the cache.
CacheVariants == {"bot", "tiers"}

NotVoted == 0 - 1

Timer(b, left) == [battle |-> b, left |-> left]

Vote(u, b) == [user |-> u, battle |-> b]

Timers == BagToSet(battleCache.timers)

Votes == BagToSet(battleCache.votes)

InitCache ==
    /\ mode = "cache"
    /\ \E v \in CacheVariants :
         battleCache = [variant |-> v,
                        status |-> [b \in BattleIds |-> "none"],
                        creator |-> [b \in BattleIds |-> Nobody],
                        activeBattles |-> [b \in BattleIds |-> Absent],
                        timers |-> EmptyBag,
                        votes |-> EmptyBag,
                        sinceVote |-> [b \in BattleIds |-> NotVoted],
                        answer |-> "none",
                        early |-> {}]
    /\ sessionBot = <<>> /\ access = <<>> /\ embed = <<>>
    /\ decls = <<>> /\ frags = <<>>
    /\ pc = "ready"
    /\ EngineIdle
    /\ RegexIdle
    /\ AssembleIdle
    /\ ParallelIdle
    /\ SandboxIdle
    /\ TranslatorIdle
    /\ PlacementIdle
    /\ CompileIdle
    /\ BotIdle

CacheUnchanged ==
    UNCHANGED <<mode, decls, frags, pc, engineVars, regexVars, assembleVars, parallelVars,
                sandboxVars, translatorVars, placementVars, compileVars, botVars,
                sessionBot, access, embed>>

\* handleCommand, battle: POST /battle creates a battle that waits for its
\* vote; activeBattles.set, and no timer.
CacheBattle(u) ==
    /\ mode = "cache"
    /\ \E b \in BattleIds :
         /\ battleCache.status[b] = "none"
         /\ \A c \in BattleIds : c < b => battleCache.status[c] # "none"
         /\ battleCache' = [battleCache EXCEPT !.status[b] = "pending_vote",
                                               !.creator[b] = u,
                                               !.activeBattles[b] = u]
    /\ CacheUnchanged

\* handleCommand, battleinfo: GET /battle/{id}, activeBattles.set, and a
\* timer of five minutes that deletes the battle from activeBattles.
CacheBattleInfo(u, b) ==
    /\ mode = "cache"
    /\ battleCache.status[b] # "none"
    /\ BagCardinality(battleCache.timers) < MaxTimers
    /\ battleCache' = [battleCache EXCEPT
                          !.activeBattles[b] = u,
                          !.timers = @ (+) SetToBag({Timer(b, CacheMinutes)})]
    /\ CacheUnchanged

\* handleCommand, battleback, of the bot with tiers: POST /battleback gives
\* the battle of the user; activeBattles.set, and no timer.
CacheBattleback(u) ==
    /\ mode = "cache" /\ battleCache.variant = "tiers"
    /\ \E b \in BattleIds :
         /\ battleCache.creator[b] = u
         /\ \A c \in BattleIds : c > b => battleCache.creator[c] # u
         /\ battleCache' = [battleCache EXCEPT !.activeBattles[b] = u]
    /\ CacheUnchanged

\* handleVoteButton up to its request.  The bot ends with a message when the
\* battle is not in activeBattles or the user is not its authorId; the bot
\* with tiers goes on when the battle is not in activeBattles.
CacheVoteButton(u, b) ==
    /\ mode = "cache"
    /\ battleCache.status[b] # "none"
    /\ BagCardinality(battleCache.votes) < MaxRequests
    /\ LET author == battleCache.activeBattles[b]
           goesOn == IF author = Absent THEN battleCache.variant = "tiers" ELSE author = u
       IN  IF goesOn
           THEN battleCache' = [battleCache EXCEPT !.votes = @ (+) SetToBag({Vote(u, b)})]
           ELSE battleCache' = [battleCache EXCEPT !.answer = "refused"]
    /\ CacheUnchanged

\* The answer to POST /vote/{battleId}: the backend takes the vote of a
\* battle that waits for its vote; after a success handleVoteButton sets a
\* timer of five minutes that deletes the battle from activeBattles.
CacheVoteResponse(v) ==
    /\ mode = "cache"
    /\ v \in Votes
    /\ LET b == v.battle
           rest == battleCache.votes (-) SetToBag({v})
       IN  IF battleCache.status[b] = "pending_vote"
           THEN /\ BagCardinality(battleCache.timers) < MaxTimers
                /\ battleCache' = [battleCache EXCEPT
                                      !.status[b] = "completed",
                                      !.votes = rest,
                                      !.timers = @ (+) SetToBag({Timer(b, CacheMinutes)}),
                                      !.sinceVote[b] = 0,
                                      !.answer = "voted"]
           ELSE battleCache' = [battleCache EXCEPT !.votes = rest, !.answer = "vote_failed"]
    /\ CacheUnchanged

\* A timer set with setTimeout has run out: activeBattles.delete(battleId).
TimerFires(t) ==
    /\ mode = "cache"
    /\ t \in Timers
    /\ t.left = 0
    /\ battleCache' = [battleCache EXCEPT !.activeBattles[t.battle] = Absent,
                                          !.timers = @ (-) SetToBag({t})]
    /\ CacheUnchanged

\* handleViewFullButton: the battle of activeBattles gives the link to its
\* full content; without it the answer is that the battle has expired.
HandleViewFullButton(b) ==
    /\ mode = "cache"
    /\ battleCache.status[b] # "none"
    /\ IF battleCache.activeBattles[b] = Absent
       THEN battleCache' = [battleCache EXCEPT
                               !.answer = "expired",
                               !.early = IF battleCache.sinceVote[b] \in 0..(CacheMinutes - 1)
                                         THEN @ \cup {b} ELSE @]
       ELSE battleCache' = [battleCache EXCEPT !.answer = "link"]
    /\ CacheUnchanged

\* A minute passes, once the timers that have run out have fired.  The time
\* since a vote is counted up to CacheMinutes.
Tick ==
    /\ mode = "cache"
    /\ \A t \in Timers : t.left > 0
    /\ LET next == {Timer(t.battle, t.left - 1) : t \in Timers}
           Count(n) == LET from == {t \in Timers : Timer(t.battle, t.left - 1) = n}
                       IN  CopiesIn(CHOOSE t \in from : TRUE, battleCache.timers)
       IN  battleCache' = [battleCache EXCEPT
               !.timers = [n \in next |-> Count(n)],
               !.sinceVote = [b \in BattleIds |->
                                 IF @[b] = NotVoted \/ @[b] = CacheMinutes THEN @[b] ELSE @[b] + 1]]
    /\ CacheUnchanged

NextCache ==
    \/ \E u \in Users : CacheBattle(u)
    \/ \E u \in Users : \E b \in BattleIds : CacheBattleInfo(u, b)
    \/ \E u \in Users : CacheBattleback(u)
    \/ \E u \in Users : \E b \in BattleIds : CacheVoteButton(u, b)
    \/ \E v \in Votes : CacheVoteResponse(v)
    \/ \E t \in Timers : TimerFires(t)
    \/ \E b \in BattleIds : HandleViewFullButton(b)
    \/ Tick

SpecCache == InitCache /\ [][NextCache]_vars

\* The timers of Node run out and fire, time passes, and the backend answers
\* every request.
SpecCacheTimers ==
    /\ SpecCache
    /\ WF_vars(Tick)
    /\ WF_vars(\E t \in Timers : TimerFires(t))
    /\ WF_vars(\E v \in Votes : CacheVoteResponse(v))

\* C36: in the bot of bot.js, from a successful vote on a battle until five
\* minutes after it, the battle is in activeBattles, and view_full does not
\* answer that it has expired.
C36_CachedFiveMinutesAfterVote ==
    battleCache.variant = "bot" =>
        /\ \A b \in BattleIds :
              battleCache.sinceVote[b] \in 0..(CacheMinutes - 1)
                  => battleCache.activeBattles[b] # Absent
        /\ battleCache.early = {}

\* C37: every battle put into activeBattles is deleted from it at some later
\* time.
C37_EveryEntryRemoved ==
    \A b \in BattleIds :
        (battleCache # <<>> /\ battleCache.activeBattles[b] # Absent)
            ~> (battleCache.activeBattles[b] = Absent)

----------------------------------------------------------------------------
(* The whitelists of users, roles and channels *)

RoleIds == {"r1"}

ChannelIds == {"c1", "c2"}

\* Commands that check the channel only and then ask the backend.
ChannelCommands == {"leaderboard", "battleinfo", "health"}

\* isChannelAllowed: no channel configured restricts nothing.
IsChannelAllowed(channelId) ==
    access.ALLOWED_CHANNEL_IDS = {} \/ channelId \in access.ALLOWED_CHANNEL_IDS

\* isMemberAllowed: nothing configured restricts nobody; a listed user is
\* let through; otherwise the member of the interaction must hold a listed
\* role, and an interaction without a member is refused.
IsMemberAllowed(u, member) ==
    IF access.ALLOWED_USER_IDS = {} /\ access.ALLOWED_ROLE_IDS = {} THEN TRUE
    ELSE IF u \in access.ALLOWED_USER_IDS THEN TRUE
    ELSE IF ~member THEN FALSE
    ELSE \E rid \in access.ALLOWED_ROLE_IDS : rid \in access.roles[u]

\* What the bot did on the last interaction, with what held when it did it.
Done(kind, u, channelId, member, sent, cached) ==
    [kind |-> kind, user |-> u, channel |-> channelId,
     member |-> IsMemberAllowed(u, member), inChannel |-> IsChannelAllowed(channelId),
     sent |-> sent, cached |-> cached]

\* The message with the vote buttons of a battle: ephemeral, for the user of
\* the /battle, in the channel of the command.
VoteButtons(u, channelId, member) == [user |-> u, channel |-> channelId, member |-> member]

NoButtons == VoteButtons(Nobody, "", FALSE)

NothingDone == [kind |-> "none"]

InitAccess ==
    /\ mode = "access"
    /\ \E us \in SUBSET Users : \E rs \in SUBSET RoleIds : \E cs \in SUBSET ChannelIds :
       \E held \in [Users -> SUBSET RoleIds] :
         access = [ALLOWED_USER_IDS |-> us,
                   ALLOWED_ROLE_IDS |-> rs,
                   ALLOWED_CHANNEL_IDS |-> cs,
                   roles |-> held,
                   status |-> [b \in BattleIds |-> "none"],
                   activeBattles |-> [b \in BattleIds |-> Absent],
                   buttons |-> [b \in BattleIds |-> NoButtons],
                   done |-> NothingDone]
    /\ sessionBot = <<>> /\ battleCache = <<>> /\ embed = <<>>
    /\ decls = <<>> /\ frags = <<>>
    /\ pc = "ready"
    /\ EngineIdle
    /\ RegexIdle
    /\ AssembleIdle
    /\ ParallelIdle
    /\ SandboxIdle
    /\ TranslatorIdle
    /\ PlacementIdle
    /\ CompileIdle
    /\ BotIdle

AccessUnchanged ==
    UNCHANGED <<mode, decls, frags, pc, engineVars, regexVars, assembleVars, parallelVars,
                sandboxVars, translatorVars, placementVars, compileVars, botVars,
                sessionBot, battleCache, embed>>

\* handleCommand, battle: the member check, then the channel check, then POST
\* /battle and activeBattles.set; the message with the vote buttons is for
\* the user of the command only.
AccessBattleCommand(u, channelId, member) ==
    /\ mode = "access"
    /\ IF IsMemberAllowed(u, member) /\ IsChannelAllowed(channelId)
       THEN \E b \in BattleIds :
              /\ access.status[b] = "none"
              /\ \A c \in BattleIds : c < b => access.status[c] # "none"
              /\ access' = [access EXCEPT
                               !.status[b] = "pending_vote",
                               !.activeBattles[b] = u,
                               !.buttons[b] = VoteButtons(u, channelId, member),
                               !.done = Done("battle", u, channelId, member, TRUE, TRUE)]
       ELSE access' = [access EXCEPT
                          !.done = Done("battle", u, channelId, member, FALSE, FALSE)]
    /\ AccessUnchanged

\* handleCommand, leaderboard, battleinfo and health: the channel check, then
\* the request; battleinfo puts the battle into activeBattles.
AccessChannelCommand(name, u, channelId, member, b) ==
    /\ mode = "access"
    /\ name \in ChannelCommands
    /\ IF IsChannelAllowed(channelId)
       THEN LET found == name = "battleinfo" /\ access.status[b] # "none"
            IN  access' = [access EXCEPT
                              !.activeBattles[b] = IF found THEN u ELSE @,
                              !.done = Done(name, u, channelId, member, TRUE, found)]
       ELSE access' = [access EXCEPT
                          !.done = Done(name, u, channelId, member, FALSE, FALSE)]
    /\ AccessUnchanged

\* handleVoteButton, for a click of the user who has the vote buttons of the
\* battle, where the message with the buttons is: the battle must be in
\* activeBattles with the user as authorId; then POST /vote/{battleId}.
AccessVoteButton(u, channelId, member, b) ==
    /\ mode = "access"
    /\ access.buttons[b] = VoteButtons(u, channelId, member)
    /\ IF access.activeBattles[b] = u
       THEN access' = [access EXCEPT
                          !.status[b] = "completed",
                          !.done = Done("vote", u, channelId, member, TRUE, FALSE)]
       ELSE access' = [access EXCEPT
                          !.done = Done("vote", u, channelId, member, FALSE, FALSE)]
    /\ AccessUnchanged

\* The server gives a role to a member or takes it away.
RoleUpdate(u, held) ==
    /\ mode = "access"
    /\ held # access.roles[u]
    /\ access' = [access EXCEPT !.roles[u] = held]
    /\ AccessUnchanged

NextAccess ==
    \/ \E u \in Users : \E ch \in ChannelIds : \E member \in BOOLEAN :
         AccessBattleCommand(u, ch, member)
    \/ \E name \in ChannelCommands : \E u \in Users : \E ch \in ChannelIds :
       \E member \in BOOLEAN : \E b \in BattleIds :
         AccessChannelCommand(name, u, ch, member, b)
    \/ \E u \in Users : \E ch \in ChannelIds : \E member \in BOOLEAN : \E b \in BattleIds :
         AccessVoteButton(u, ch, member, b)
    \/ \E u \in Users : \E held \in SUBSET RoleIds : RoleUpdate(u, held)

SpecAccess == InitAccess /\ [][NextAccess]_vars

\* C38: a /battle or a vote click of a member who is not let through by the
\* user/role whitelist sends no request and puts nothing into the cache; a
\* command in a channel outside the channel whitelist sends no request.
C38_OnlyWhitelisted ==
    LET d == access.done
    IN  d.kind # "none" =>
            /\ d.kind \in {"battle", "vote"} /\ ~d.member => ~d.sent /\ ~d.cached
            /\ d.kind # "vote" /\ ~d.inChannel => ~d.sent

\* The part of C38 about /battle and about the channels.
C38_CommandsGuarded ==
    LET d == access.done
    IN  d.kind # "none" =>
            /\ d.kind = "battle" /\ ~d.member => ~d.sent /\ ~d.cached
            /\ d.kind # "vote" /\ ~d.inChannel => ~d.sent

\* A /battle in a channel of the whitelist was refused for its member.
C38_CommandsGuarded_Witness ==
    /\ access.done.kind = "battle"
    /\ ~access.done.member /\ access.done.inChannel
    /\ access.ALLOWED_CHANNEL_IDS # {}

----------------------------------------------------------------------------
(* The descriptions of the embeds and their truncation *)

\* const MAX = 4096: the limit of an embed description.
MAX == 4096

\* const minQuota = 1000
MinQuota == 1000

MaxPad == 9
MaxTicks == 4
MaxTail == 10
MaxPrompt == 2

\* A string is kept as its runs of equal characters: "tick" is the backtick
\* and "x" any other character.
Run(ch, n) == [ch |-> ch, n |-> n]

Str(ch, n) == IF n = 0 THEN <<>> ELSE <<Run(ch, n)>>

\* s + t
Plus(s, t) ==
    IF s = <<>> THEN t
    ELSE IF t = <<>> THEN s
    ELSE IF s[Len(s)].ch = t[1].ch
         THEN SubSeq(s, 1, Len(s) - 1) \o <<Run(t[1].ch, s[Len(s)].n + t[1].n)>> \o Tail(t)
         ELSE s \o t

RECURSIVE Length(_)
\* s.length
Length(s) == IF s = <<>> THEN 0 ELSE s[1].n + Length(Tail(s))

RECURSIVE Substring(_, _)
\* s.substring(0, n), s.slice(0, n) for n >= 0
Substring(s, n) ==
    IF s = <<>> \/ n <= 0 THEN <<>>
    ELSE IF s[1].n >= n THEN <<Run(s[1].ch, n)>>
    ELSE <<s[1]>> \o Substring(Tail(s), n - s[1].n)

RECURSIVE Fences(_)
\* The number of matches of three backticks in s (s.match): the matches do
\* not overlap, so a run of n backticks holds n \div 3 of them.
Fences(s) ==
    IF s = <<>> THEN 0
    ELSE (IF s[1].ch = "tick" THEN s[1].n \div 3 ELSE 0) + Fences(Tail(s))

\* Three dots.
Ellipsis == Str("x", 3)

\* Three dots, a line end and a fence.
EllipsisFence == Plus(Str("x", 4), Str("tick", 3))

safeTruncateEmbed(text) ==
    IF Length(text) <= MAX THEN text
    ELSE LET cut == Plus(Substring(text, MAX - 3), Ellipsis)
             closed == IF Fences(cut) % 2 # 0
                       THEN Plus(Substring(cut, MAX - 7), EllipsisFence)
                       ELSE cut
         IN  IF Length(closed) > MAX THEN Substring(closed, MAX) ELSE closed

\* The baseText of /battle (a heading of 7 characters) and of /battleinfo (a
\* heading of 9), for a prompt of one line without backticks: the heading,
\* the quote mark with its space, the prompt and two line ends.
BaseText(command, prompt) ==
    Str("x", (IF command = "battle" THEN 7 ELSE 9) + 2 + prompt + 2)

\* templateA and templateB with the content in its place: a title of 13
\* characters, 5 more when the content was cut, a fence, the content on a
\* line of its own, a fence; the template of B has no line end after it.
Template(model, partial, content) ==
    Plus(Str("x", 13 + (IF partial THEN 5 ELSE 0)),
    Plus(Str("tick", 3),
    Plus(Str("x", 1),
    Plus(content,
    Plus(Str("x", 1),
    Plus(Str("tick", 3), Str("x", IF model = "A" THEN 1 ELSE 0)))))))

\* s.substring(0, quota > 3 ? quota - 3 : 0) and three dots
CutTo(s, quota) == Plus(Substring(s, IF quota > 3 THEN quota - 3 ELSE 0), Ellipsis)

\* The description of /battle and /battleinfo: the quotas of the two
\* answers, the templates, and the cut of the whole at 4096.
Description(command, prompt, responseA, responseB) ==
    LET baseText == BaseText(command, prompt)
        formattingLength ==
            Length(Plus(baseText, Plus(Template("A", FALSE, <<>>), Template("B", FALSE, <<>>))))
        availableLength == MAX - formattingLength
        over == Length(responseA) + Length(responseB) > availableLength
        allocatedToA == availableLength \div 2
        isATruncated == over /\ Length(responseA) >= MinQuota /\ Length(responseA) > allocatedToA
        displayA == IF isATruncated THEN CutTo(responseA, allocatedToA) ELSE responseA
        remainingLength == availableLength - Length(displayA)
        isBTruncated == over /\ Length(responseB) > remainingLength
        displayB == IF isBTruncated THEN CutTo(responseB, remainingLength) ELSE responseB
        finalDescription ==
            Plus(baseText, Plus(Template("A", isATruncated, displayA),
                                Template("B", isBTruncated, displayB)))
        cut == Plus(Substring(finalDescription, MAX - 3), Ellipsis)
    IN  IF Length(finalDescription) > MAX
        THEN IF Fences(cut) % 2 # 0
             THEN Plus(Substring(cut, MAX - 6), EllipsisFence)
             ELSE cut
        ELSE finalDescription

\* Texts about as long as the limit: other characters, then a run of
\* backticks near the place of the cut, then other characters; some begin
\* with a fence.
LongTexts ==
    {Plus(Str("tick", open), Plus(Str("x", MAX - pad), Plus(Str("tick", ticks), Str("x", tail)))) :
        open \in {0, 3}, pad \in 0..MaxPad, ticks \in 0..MaxTicks, tail \in 0..MaxTail}

\* Answers of the models: short, at the quota, and long.
Responses ==
    {Str("x", n) : n \in {1, MinQuota - 1, MinQuota, MAX \div 2, MAX}}
        \cup {Plus(Str("x", MinQuota), Plus(Str("tick", 3), Str("x", MAX \div 2)))}

Commands == {"battle", "battleinfo"}

InitEmbed ==
    /\ mode = "embed"
    /\ \/ \E text \in LongTexts :
            embed = [fn |-> "safeTruncateEmbed", text |-> text, out |-> <<>>, done |-> FALSE]
       \/ \E c \in Commands : \E prompt \in 1..MaxPrompt :
          \E a \in Responses : \E b \in Responses :
            embed = [fn |-> c, prompt |-> prompt, responseA |-> a, responseB |-> b,
                     text |-> Plus(a, b), out |-> <<>>, done |-> FALSE]
    /\ sessionBot = <<>> /\ battleCache = <<>> /\ access = <<>>
    /\ decls = <<>> /\ frags = <<>>
    /\ pc = "ready"
    /\ EngineIdle
    /\ RegexIdle
    /\ AssembleIdle
    /\ ParallelIdle
    /\ SandboxIdle
    /\ TranslatorIdle
    /\ PlacementIdle
    /\ CompileIdle
    /\ BotIdle

EmbedUnchanged ==
    UNCHANGED <<mode, decls, frags, pc, engineVars, regexVars, assembleVars, parallelVars,
                sandboxVars, translatorVars, placementVars, compileVars, botVars,
                sessionBot, battleCache, access>>

\* .setDescription(safeTruncateEmbed(text))
SetSafeDescription ==
    /\ mode = "embed"
    /\ embed.fn = "safeTruncateEmbed" /\ ~embed.done
    /\ embed' = [embed EXCEPT !.out = safeTruncateEmbed(embed.text), !.done = TRUE]
    /\ EmbedUnchanged

\* embed.setDescription(finalDescriptionText) of /battle and /battleinfo
SetDescription ==
    /\ mode = "embed"
    /\ embed.fn \in Commands /\ ~embed.done
    /\ embed' = [embed EXCEPT
                    !.out = Description(embed.fn, embed.prompt, embed.responseA, embed.responseB),
                    !.done = TRUE]
    /\ EmbedUnchanged

NextEmbed ==
    \/ SetSafeDescription
    \/ SetDescription

SpecEmbed == InitEmbed /\ [][NextEmbed]_vars

\* C39: a description is within the limit of 4096; safeTruncateEmbed gives a
\* text within the limit back as it is, and a text it has cut has an even
\* number of fences; a description of /battle or /battleinfo has an even
\* number of fences when its answers have.
C39_WithinLimitAndClosed ==
    embed.done =>
        /\ Length(embed.out) <= MAX
        /\ embed.fn = "safeTruncateEmbed" /\ Length(embed.text) <= MAX => embed.out = embed.text
        /\ embed.fn = "safeTruncateEmbed" /\ Length(embed.text) > MAX => Fences(embed.out) % 2 = 0
        /\ embed.fn \in Commands /\ Fences(embed.text) % 2 = 0 => Fences(embed.out) % 2 = 0

\* What safeTruncateEmbed does keep: its result is within the limit, and a
\* text within the limit comes back as it is.
C39_SafeTruncateWithinLimit ==
    embed.done /\ embed.fn = "safeTruncateEmbed" =>
        /\ Length(embed.out) <= MAX
        /\ Length(embed.text) <= MAX => embed.out = embed.text

====
